---- MODULE Spec2Model ----
(***************************************************************************)
(* A model of the NexusTrader execution core: the Binance execution        *)
(* management system (account-type resolution and the per-account-type     *)
(* submission queues) and the order operations of the Binance private      *)
(* connector (create_order, create_take_profit_order,                      *)
(* create_stop_loss_order, cancel_order).                                  *)
(***************************************************************************)
EXTENDS Integers, Sequences, FiniteSets, TLC

VARIABLES
    \* ---- BinanceExecutionManagementSystem (exchange/binance/ems.py) ----
    private_connectors,             \* keys of self._private_connectors
    built,                          \* whether _build has run
    binance_spot_account_type,      \* self._binance_spot_account_type
    binance_linear_account_type,    \* self._binance_linear_account_type
    binance_inverse_account_type,   \* self._binance_inverse_account_type
    binance_pm_account_type,        \* self._binance_pm_account_type
    order_submit_queues,            \* self._order_submit_queues: account type -> queue
    dispatched,                     \* per account type, the commands its consumer took
    accepted,                       \* history: the commands _submit_order enqueued
    next_uuid,                      \* the number of the next OrderSubmit
    last_submit,                    \* the last _submit_order call and its outcome
    resolved,                       \* the last _instrument_id_to_account_type call
    \* ---- BinancePrivateConnector (exchange/binance/connector.py) ----
    account_type,                   \* self._account_type
    limiter,                        \* whether self._limiter is set
    tokens,                         \* free capacity of the rate limiter
    call,                           \* the order operation in progress
    \* ---- BinancePrivateConnector: the user-data session ----
    session,                        \* connect(): its position and what it did
    keep_alive,                     \* the _keep_alive_user_data_stream task
    cache_positions,                \* self._cache: symbol -> Position
    handler,                        \* the _ws_msg_handler call in progress
    delivered,                      \* the number of frames the transport delivered
    last_effect_frame,              \* the frame of the latest cache write or publish
    last_mention,                   \* per symbol, its entry in the last frame naming it
    published,                      \* the Orders published on "binance.order"
    \* ---- OkxEnumParser, BinanceEnumParser ----
    enum_call,                      \* one translation and its way back
    \* ---- Strategy (strategy.py) and the algo orders of the EMS ----
    strategy,                       \* the last call of the strategy's order API
    algos,                          \* algo uuid -> the algo order's state
    \* ---- Engine (tradebot/engine.py) ----
    engine,                         \* the configuration and how far start() is
    \* ---- BinancePublicConnector (exchange/binance/connector.py) ----
    public,                         \* the last call of the public connector
    \* ---- _get_min_order_amount (exchange/binance/ems.py) ----
    calc,                           \* one computation of the minimum amount
    \* ---- Strategy._init_core and the message bus (strategy.py) ----
    msgbus,                         \* the registrations on the message bus
    \* ---- BybitOrderBook (tradebot/exchange/bybit/schema.py) ----
    orderbook,                      \* the book and the last message it took
    \* ---- PositionDict (tradebot/entity.py) ----
    position_dict                   \* the store and the orders applied to it

emsVars == <<private_connectors, built, binance_spot_account_type,
             binance_linear_account_type, binance_inverse_account_type,
             binance_pm_account_type, order_submit_queues, dispatched,
             accepted, next_uuid, last_submit, resolved>>
connVars == <<account_type, limiter, tokens, call>>
sessionVars == <<session, keep_alive>>
streamVars == <<cache_positions, handler, delivered, last_effect_frame,
                last_mention, published>>
enumVars == <<enum_call>>
strategyVars == <<strategy, algos>>
coreVars == <<msgbus, orderbook, position_dict>>
appVars == <<strategyVars, engine, public, calc, coreVars>>
vars == <<emsVars, connVars, sessionVars, streamVars, enumVars, appVars>>

\* Python's None.
None == "None"

(***************************************************************************)
(* Bounds of the model.                                                    *)
(***************************************************************************)
\* The number of OrderSubmit commands a run submits.
MaxOrders == 3
\* The number of private connectors of a configuration under Spec.
MaxConnectors == 2
\* The capacity of the rate limiter.
MaxTokens == 1

(***************************************************************************)
(* Account types.                                                          *)
(***************************************************************************)
BinanceAccountType ==
    {"SPOT", "MARGIN", "ISOLATED_MARGIN", "USD_M_FUTURE", "COIN_M_FUTURE",
     "PORTFOLIO_MARGIN", "SPOT_TESTNET", "USD_M_FUTURE_TESTNET",
     "COIN_M_FUTURE_TESTNET"}

\* An account type of another exchange: the engine hands every private
\* connector, of every exchange, to each execution management system.
OkxAccountType == {"OKX_LIVE"}

AccountType == BinanceAccountType \cup OkxAccountType

is_spot(t) == t \in {"SPOT", "SPOT_TESTNET"}
is_margin(t) == t \in {"MARGIN"}
is_isolated_margin_or_margin(t) == t \in {"MARGIN", "ISOLATED_MARGIN"}
is_linear(t) == t \in {"USD_M_FUTURE", "USD_M_FUTURE_TESTNET"}
is_inverse(t) == t \in {"COIN_M_FUTURE", "COIN_M_FUTURE_TESTNET"}
is_portfolio_margin(t) == t \in {"PORTFOLIO_MARGIN"}

\* The kinds of instrument an InstrumentId can name (is_spot, is_linear,
\* is_inverse, or none of them).
InstrumentKind == {"spot", "linear", "inverse", "option"}

(***************************************************************************)
(* BinanceExecutionManagementSystem                                        *)
(***************************************************************************)
BINANCE_SPOT_PRIORITY_Swapped ==
    <<"SPOT", "SPOT_TESTNET", "MARGIN", "ISOLATED_MARGIN">>

BINANCE_SPOT_PRIORITY ==
    <<"ISOLATED_MARGIN", "MARGIN", "SPOT_TESTNET", "SPOT">>

\* for account_type in BINANCE_SPOT_PRIORITY: if account_type in
\* account_types: <assign>; break   -- from position i on; None when the loop
\* ends without a hit (the attribute keeps its initial None).
RECURSIVE first_in_priority(_, _)
first_in_priority(i, account_types) ==
    IF i > Len(BINANCE_SPOT_PRIORITY) THEN None
    ELSE IF BINANCE_SPOT_PRIORITY[i] \in account_types
         THEN BINANCE_SPOT_PRIORITY[i]
         ELSE first_in_priority(i + 1, account_types)

\* _set_account_type: the four attributes it leaves, as a record.
set_account_type(account_types) ==
    IF "PORTFOLIO_MARGIN" \in account_types
    THEN [pm |-> "PORTFOLIO_MARGIN", spot |-> None, linear |-> None,
          inverse |-> None]
    ELSE [pm |-> None,
          spot |-> first_in_priority(1, account_types),
          linear |-> IF "USD_M_FUTURE_TESTNET" \in account_types
                     THEN "USD_M_FUTURE_TESTNET" ELSE "USD_M_FUTURE",
          inverse |-> IF "COIN_M_FUTURE_TESTNET" \in account_types
                      THEN "COIN_M_FUTURE_TESTNET" ELSE "COIN_M_FUTURE"]

\* _build_order_submit_queues: one empty queue per Binance account type among
\* the private connectors.
build_order_submit_queues(account_types) ==
    [a \in account_types \cap BinanceAccountType |-> <<>>]

\* _instrument_id_to_account_type; the if/elif chain has no else, so an
\* instrument that is none of spot, linear, inverse gives None.
instrument_id_to_account_type(kind) ==
    IF binance_pm_account_type # None THEN binance_pm_account_type
    ELSE IF kind = "spot" THEN binance_spot_account_type
    ELSE IF kind = "linear" THEN binance_linear_account_type
    ELSE IF kind = "inverse" THEN binance_inverse_account_type
    ELSE None

\* _submit_order, lines 89-90: the explicit account type wins.
submit_target_ignoring_override(kind, explicit) ==
    instrument_id_to_account_type(kind)

submit_target(kind, explicit) ==
    IF explicit = None THEN instrument_id_to_account_type(kind) ELSE explicit

\* asyncio.Queue.put_nowait on an unbounded queue.
put_front(queue, order) == <<order>> \o queue

put_nowait(queue, order) == Append(queue, order)

\* The engine builds the execution management system: the queues, then the
\* account types.
Build ==
    /\ ~built
    /\ built' = TRUE
    /\ order_submit_queues' = build_order_submit_queues(private_connectors)
    /\ dispatched' = build_order_submit_queues(private_connectors)
    /\ LET r == set_account_type(private_connectors)
       IN /\ binance_pm_account_type' = r.pm
          /\ binance_spot_account_type' = r.spot
          /\ binance_linear_account_type' = r.linear
          /\ binance_inverse_account_type' = r.inverse
    /\ UNCHANGED <<private_connectors, accepted, next_uuid, last_submit,
                   resolved, connVars,
                   sessionVars, streamVars, enumVars, appVars>>

\* One call of _instrument_id_to_account_type.
Resolve ==
    /\ built
    /\ \E kind \in InstrumentKind :
         resolved' = [instrument |-> kind,
                      result |-> instrument_id_to_account_type(kind)]
    /\ UNCHANGED <<private_connectors, built, binance_spot_account_type,
                   binance_linear_account_type, binance_inverse_account_type,
                   binance_pm_account_type, order_submit_queues, dispatched,
                   accepted, next_uuid, last_submit, connVars,
                   sessionVars, streamVars, enumVars, appVars>>

\* A strategy submits a command: _submit_order(order, account_type). The
\* command is known by its uuid, its instrument by the kind of the instrument.
\* A target without a queue is a KeyError: nothing is enqueued.
SubmitOrder ==
    /\ built
    /\ next_uuid <= MaxOrders
    /\ \E kind \in InstrumentKind, explicit \in AccountType \cup {None} :
         LET target == submit_target(kind, explicit)
             raised == target \notin DOMAIN order_submit_queues
         IN /\ order_submit_queues' =
                 IF raised THEN order_submit_queues
                 ELSE [order_submit_queues EXCEPT
                         ![target] = put_nowait(@, next_uuid)]
            /\ accepted' =
                 IF raised THEN accepted
                 ELSE Append(accepted, [uuid |-> next_uuid, target |-> target])
            /\ last_submit' = [uuid |-> next_uuid, instrument |-> kind,
                               account_type |-> explicit, raised |-> raised]
    /\ next_uuid' = next_uuid + 1
    /\ UNCHANGED <<private_connectors, built, binance_spot_account_type,
                   binance_linear_account_type, binance_inverse_account_type,
                   binance_pm_account_type, dispatched, resolved, connVars,
                   sessionVars, streamVars, enumVars, appVars>>

\* The consumer of one account type's queue takes the next command and hands
\* it to that account type's private connector.
Dispatch ==
    /\ \E a \in DOMAIN order_submit_queues :
         /\ order_submit_queues[a] # <<>>
         /\ dispatched' = [dispatched EXCEPT
                             ![a] = Append(@, Head(order_submit_queues[a]))]
         /\ order_submit_queues' = [order_submit_queues EXCEPT ![a] = Tail(@)]
    /\ UNCHANGED <<private_connectors, built, binance_spot_account_type,
                   binance_linear_account_type, binance_inverse_account_type,
                   binance_pm_account_type, accepted, next_uuid, last_submit,
                   resolved, connVars,
                   sessionVars, streamVars, enumVars, appVars>>

(***************************************************************************)
(* BinancePrivateConnector: the order operations                           *)
(***************************************************************************)
OrderOp == {"create_order", "create_take_profit_order",
            "create_stop_loss_order", "cancel_order"}

\* Canonical order types: the two BinanceEnumParser._binance_order_type_map
\* knows, and a trigger type.
OrderType == {"LIMIT", "MARKET", "TAKE_PROFIT_MARKET"}

\* The requested amounts of the model.
Amounts == {1, 2}

\* self._market.get(symbol): no entry, or a BinanceMarket with its kind flags.
NoMarket == [present |-> FALSE, spot |-> FALSE, margin |-> FALSE,
             linear |-> FALSE, inverse |-> FALSE]

market_of(spot, margin, linear, inverse) ==
    [present |-> TRUE, spot |-> spot, margin |-> margin, linear |-> linear,
     inverse |-> inverse]

Markets ==
    { NoMarket,
      market_of(TRUE, FALSE, FALSE, FALSE),     \* spot, not marginable
      market_of(TRUE, TRUE, FALSE, FALSE),      \* spot, marginable
      market_of(FALSE, TRUE, FALSE, FALSE),     \* margin only
      market_of(FALSE, FALSE, TRUE, FALSE),     \* linear contract
      market_of(FALSE, FALSE, FALSE, TRUE),     \* inverse contract
      market_of(FALSE, FALSE, FALSE, FALSE) }   \* none of the four (an option)

NoOrder == [status |-> None]

IdleCall ==
    [pc |-> "idle", op |-> None, market |-> NoMarket, type |-> None,
     has_price |-> FALSE, amount |-> 0, suspended |-> FALSE,
     acquired |-> FALSE, rest_calls |-> 0, rest_ok |-> FALSE,
     exception |-> None, order |-> NoOrder]

\* BinanceEnumParser.to_binance_order_type: _order_type_to_binance_map[type].
to_binance_order_type_defined(type) == type \in {"LIMIT", "MARKET"}

\* _execute_order_request: "rest" when it awaits an order endpoint of the
\* REST client, "ValueError" when it raises, "None" when no branch of the
\* portfolio-margin case applies and the coroutine returns None.
execute_order_request_no_inverse_check(t, market) ==
    IF is_spot(t) THEN (IF ~market.spot THEN "ValueError" ELSE "rest")
    ELSE IF is_isolated_margin_or_margin(t)
         THEN (IF ~market.margin THEN "ValueError" ELSE "rest")
    ELSE IF is_linear(t) THEN (IF ~market.linear THEN "ValueError" ELSE "rest")
    ELSE IF is_inverse(t) THEN "rest"
    ELSE IF is_portfolio_margin(t)
         THEN (IF market.margin \/ market.linear \/ market.inverse
               THEN "rest" ELSE "None")
    ELSE "None"

execute_order_request(t, market) ==
    IF is_spot(t) THEN (IF ~market.spot THEN "ValueError" ELSE "rest")
    ELSE IF is_isolated_margin_or_margin(t)
         THEN (IF ~market.margin THEN "ValueError" ELSE "rest")
    ELSE IF is_linear(t) THEN (IF ~market.linear THEN "ValueError" ELSE "rest")
    ELSE IF is_inverse(t)
         THEN (IF ~market.inverse THEN "ValueError" ELSE "rest")
    ELSE IF is_portfolio_margin(t)
         THEN (IF market.margin THEN "rest"
               ELSE IF market.linear THEN "rest"
               ELSE IF market.inverse THEN "rest"
               ELSE "None")
    ELSE "None"

\* _execute_cancel_order_request, the same dispatch on the cancel endpoints.
execute_cancel_order_request(t, market) ==
    IF is_spot(t) THEN (IF ~market.spot THEN "ValueError" ELSE "rest")
    ELSE IF is_isolated_margin_or_margin(t)
         THEN (IF ~market.margin THEN "ValueError" ELSE "rest")
    ELSE IF is_linear(t) THEN (IF ~market.linear THEN "ValueError" ELSE "rest")
    ELSE IF is_inverse(t)
         THEN (IF ~market.inverse THEN "ValueError" ELSE "rest")
    ELSE IF is_portfolio_margin(t)
         THEN (IF market.margin THEN "rest"
               ELSE IF market.linear THEN "rest"
               ELSE IF market.inverse THEN "rest"
               ELSE "None")
    ELSE "None"

\* The exception leaves the coroutine: the caller gets no Order.
raises(c, exception) == [c EXCEPT !.pc = "raised", !.exception = exception]

\* The REST request is sent; the coroutine waits for the reply.
awaits_rest(c) == [c EXCEPT !.pc = "rest", !.rest_calls = @ + 1]

\* The except branch of create_order / create_take_profit_order.
failed_order(c) ==
    [c EXCEPT !.pc = "returned",
              !.order = [status |-> "FAILED", symbol |-> "canonical",
                         amount |-> c.amount, filled |-> 0,
                         remaining |-> c.amount]]

\* The try branch of create_order / create_take_profit_order after the reply.
pending_order(c) ==
    [c EXCEPT !.pc = "returned",
              !.order = [status |-> "PENDING", symbol |-> "canonical",
                         amount |-> c.amount, filled |-> 0,
                         remaining |-> c.amount]]

\* The try block from the call of _execute_order_request on.
try_execute_order_request(c) ==
    LET r == execute_order_request(account_type, c.market)
    IN IF r = "rest" THEN awaits_rest(c)
       ELSE failed_order(c)    \* ValueError, or res is None: AttributeError

\* create_order from the market lookup to the REST call.
create_order_body(c) ==
    IF ~c.market.present THEN raises(c, "ValueError")
    ELSE IF ~to_binance_order_type_defined(c.type) THEN raises(c, "KeyError")
    ELSE IF c.type = "LIMIT" /\ ~c.has_price THEN raises(c, "ValueError")
    ELSE try_execute_order_request(c)

\* create_take_profit_order from the market lookup to the REST call.
\* binance_type is bound only for an inverse, linear or spot market.
create_take_profit_order_body(c) ==
    IF ~c.market.present THEN raises(c, "ValueError")
    ELSE IF ~(c.market.inverse \/ c.market.linear \/ c.market.spot)
         THEN raises(c, "UnboundLocalError")
    ELSE try_execute_order_request(c)

\* create_stop_loss_order hands its arguments to create_take_profit_order.
create_stop_loss_order_body(c) == create_take_profit_order_body(c)

\* The except branch of cancel_order. Its log line reads params, which is
\* bound only after the market was found; symbol is by then the native id.
cancel_failed(c) ==
    IF ~c.market.present THEN raises(c, "UnboundLocalError")
    ELSE [c EXCEPT !.pc = "returned",
                   !.order = [status |-> "FAILED", symbol |-> "native"]]

\* cancel_order from the market lookup to the REST call.
cancel_order_body(c) ==
    IF ~c.market.present THEN cancel_failed(c)
    ELSE LET r == execute_cancel_order_request(account_type, c.market)
         IN IF r = "rest" THEN awaits_rest(c) ELSE cancel_failed(c)

\* The REST call raised: the except branch, no second request.
on_rest_failure_retrying(c) == awaits_rest(c)

on_rest_failure(c) ==
    IF c.op = "cancel_order" THEN cancel_failed(c) ELSE failed_order(c)

\* The REST call returned the acknowledgment. create_take_profit_order reads
\* float(res.stopPrice) inside the try block: an acknowledgment without a
\* stopPrice raises TypeError there, and the except branch answers.
on_rest_success(c, has_stop_price) ==
    IF c.op = "cancel_order"
    THEN [c EXCEPT !.pc = "returned",
                   !.order = [status |-> "CANCELING", symbol |-> "native"]]
    ELSE IF c.op = "create_order" THEN pending_order(c)
    ELSE IF has_stop_price THEN pending_order(c)
    ELSE failed_order(c)

\* if self._limiter: await self._limiter.acquire()
skips_limiter_on_cancel(op) == limiter /\ op # "cancel_order"

uses_limiter(op) == limiter


(***************************************************************************)
(* Actions of the private connector                                        *)
(***************************************************************************)
\* An order operation is called. With a limiter that has no capacity the
\* coroutine is suspended in self._limiter.acquire().
Invoke ==
    /\ call.pc \in {"idle", "returned", "raised"}
    /\ \E op \in OrderOp, market \in Markets :
         \/ /\ op = "cancel_order"
            /\ call' = [IdleCall EXCEPT
                          !.pc = IF uses_limiter(op) THEN "acquire" ELSE "body",
                          !.suspended = uses_limiter(op) /\ tokens = 0,
                          !.op = op, !.market = market]
         \/ /\ op # "cancel_order"
            /\ \E type \in OrderType, has_price \in BOOLEAN, amount \in Amounts :
                 call' = [IdleCall EXCEPT
                            !.pc = IF uses_limiter(op) THEN "acquire" ELSE "body",
                            !.suspended = uses_limiter(op) /\ tokens = 0,
                            !.op = op, !.market = market, !.type = type,
                            !.has_price = has_price, !.amount = amount]
    /\ UNCHANGED <<account_type, limiter, tokens, emsVars,
                   sessionVars, streamVars, enumVars, appVars>>

\* A limiter that answers a saturated acquisition with an exception.
AcquireOrRaise ==
    /\ call.pc = "acquire"
    /\ IF tokens > 0
       THEN /\ tokens' = tokens - 1
            /\ call' = [call EXCEPT !.pc = "body", !.acquired = TRUE]
       ELSE /\ tokens' = tokens
            /\ call' = raises(call, "RateLimitError")
    /\ UNCHANGED <<account_type, limiter, emsVars,
                   sessionVars, streamVars, enumVars, appVars>>

\* The limiter grants the acquisition when it has capacity; until then the
\* coroutine stays suspended in the await.
Acquire ==
    /\ call.pc = "acquire"
    /\ tokens > 0
    /\ tokens' = tokens - 1
    /\ call' = [call EXCEPT !.pc = "body", !.acquired = TRUE]
    /\ UNCHANGED <<account_type, limiter, emsVars,
                   sessionVars, streamVars, enumVars, appVars>>

\* Capacity of the limiter frees with time.
Refill ==
    /\ limiter
    /\ tokens < MaxTokens
    /\ tokens' = tokens + 1
    /\ UNCHANGED <<account_type, limiter, call, emsVars,
                   sessionVars, streamVars, enumVars, appVars>>

\* The operation runs from the acquisition to its REST call, its return or
\* its exception.
Body ==
    /\ call.pc = "body"
    /\ call' = IF call.op = "create_order" THEN create_order_body(call)
               ELSE IF call.op = "create_take_profit_order"
                    THEN create_take_profit_order_body(call)
               ELSE IF call.op = "create_stop_loss_order"
                    THEN create_stop_loss_order_body(call)
               ELSE cancel_order_body(call)
    /\ UNCHANGED <<account_type, limiter, tokens, emsVars,
                   sessionVars, streamVars, enumVars, appVars>>

\* The exchange accepts the request and the REST client returns.
RestSuccess ==
    /\ call.pc = "rest"
    /\ \E has_stop_price \in BOOLEAN :
         call' = on_rest_success([call EXCEPT !.rest_ok = TRUE], has_stop_price)
    /\ UNCHANGED <<account_type, limiter, tokens, emsVars,
                   sessionVars, streamVars, enumVars, appVars>>

\* The REST call raises.
RestFailure ==
    /\ call.pc = "rest"
    /\ call' = on_rest_failure(call)
    /\ UNCHANGED <<account_type, limiter, tokens, emsVars,
                   sessionVars, streamVars, enumVars, appVars>>

(***************************************************************************)
(* BinancePrivateConnector: connect() and the keep-alive task              *)
(***************************************************************************)
\* max_retry: int = 3, the default of _keep_alive_user_data_stream.
DefaultMaxRetry == 3

\* The keep-alive attempts of a run.
MaxAttempts == 6

\* The values of max_retry; connect() itself passes none and gets the default.
MaxRetries == 1..DefaultMaxRetry

\* The native symbols the exchange reports: one the reverse lookup
\* self._market_id knows, and one it does not (listed after the markets were
\* loaded).
KnownNative == "BTCUSDT"
UnknownNative == "NEWUSDT"

\* self._market_id[id] has the key.
market_id_has(native) == native = KnownNative

\* self._market_id[id]: the canonical symbol.
market_id(native) == "BTC/USDT:USDT"

Symbols == {market_id(KnownNative)}

\* A position as the exchange reports it: symbol (s), position amount (pa),
\* position side (ps), entry price (ep).
RawPositions ==
    [s : {KnownNative}, pa : {-1, 0, 1}, ps : {"BOTH", "LONG", "SHORT"},
     ep : {1, 2}]
      \cup {[s |-> UnknownNative, pa |-> 1, ps |-> "BOTH", ep |-> 1]}

NoRaw == [s |-> None, pa |-> 0, ps |-> None, ep |-> 0]

\* The position lists of a snapshot or of an account update: up to two
\* entries.
PositionLists ==
    {<<>>} \cup {<<p>> : p \in RawPositions}
           \cup {<<p, q>> : p \in RawPositions, q \in RawPositions}

NoPosition == [symbol |-> None, signed_amount |-> 0, side |-> None,
               entry_price |-> 0]

\* BinancePositionSide -> PositionSide: BOTH is the netted side, FLAT.
parse_to_position_side(ps) == IF ps = "BOTH" THEN "FLAT" ELSE ps

\* The side handed to Position(...) without the derivation from the sign.
position_side_as_reported(ps, signed_amount) ==
    IF signed_amount = 0 THEN None ELSE parse_to_position_side(ps)

\* The side of the Position built from a reported side and amount
\* (_parse_account_update 436-445, _init_account_balance 307-317).
position_side(ps, signed_amount) ==
    LET side == parse_to_position_side(ps)
    IN IF signed_amount = 0 THEN None
       ELSE IF side = "FLAT"
            THEN (IF signed_amount > 0 THEN "LONG"
                  ELSE IF signed_amount < 0 THEN "SHORT"
                  ELSE side)
            ELSE side

\* Position(symbol=..., signed_amount=..., side=..., entry_price=...).
build_position(raw) ==
    [symbol |-> market_id(raw.s), signed_amount |-> raw.pa,
     side |-> position_side(raw.ps, raw.pa), entry_price |-> raw.ep]

\* AsyncCache._apply_position: upsert keyed by symbol.
apply_position(cache, position) ==
    [cache EXCEPT ![position.symbol] = position]

\* for position in positions: look the symbol up, build the Position, apply
\* it. An unknown native symbol is a KeyError at the lookup: the loop ends
\* there, the earlier entries applied.
RECURSIVE apply_positions(_, _)
apply_positions(cache, positions) ==
    IF positions = <<>> THEN [cache |-> cache, exception |-> None]
    ELSE IF ~market_id_has(Head(positions).s)
         THEN [cache |-> cache, exception |-> "KeyError"]
    ELSE apply_positions(apply_position(cache, build_position(Head(positions))),
                         Tail(positions))

\* connect() not yet called.
NewSession ==
    [pc |-> "new", rest_failed |-> FALSE, balance_applied |-> FALSE,
     positions_applied |-> FALSE, subscribed |-> FALSE, exception |-> None,
     stream_started |-> FALSE, requests |-> <<>>]

\* No keep-alive task yet.
NoKeepAlive ==
    [pc |-> "none", retry_count |-> 0, max_retry |-> 0, outcomes |-> <<>>,
     exception |-> None, requests |-> <<>>]

\* _init_account_balance has an account endpoint for the account type; for
\* portfolio margin the branch is `pass` and res stays unbound.
has_account_endpoint(t) ==
    is_spot(t) \/ is_isolated_margin_or_margin(t) \/ is_linear(t)
      \/ is_inverse(t)

\* _start_user_data_stream has a listen-key endpoint for the account type.
has_listen_key_endpoint(t) ==
    is_spot(t) \/ is_margin(t) \/ is_linear(t) \/ is_inverse(t)
      \/ is_portfolio_margin(t)

session_raises(s, exception) == [s EXCEPT !.pc = "raised", !.exception = exception]

\* _init_account_balance: the session and the cache it leaves. rest_ok says
\* whether the REST account call returned; positions is the position list of
\* the reply. Portfolio margin takes the `pass` branch and reads the unbound
\* res; a futures account applies the position snapshot after the balances.
init_account_balance(t, rest_ok, positions, cache) ==
    IF ~has_account_endpoint(t)
    THEN [session |-> session_raises(session, "UnboundLocalError"),
          cache |-> cache]
    ELSE IF ~rest_ok
    THEN [session |-> [session_raises(session, "RestError")
                         EXCEPT !.rest_failed = TRUE],
          cache |-> cache]
    ELSE IF ~(is_linear(t) \/ is_inverse(t))
    THEN [session |-> [session EXCEPT !.pc = "start_user_data_stream",
                                      !.balance_applied = TRUE],
          cache |-> cache]
    ELSE LET r == apply_positions(cache, positions)
         IN [session |->
               IF r.exception # None
               THEN [session_raises(session, r.exception)
                       EXCEPT !.balance_applied = TRUE]
               ELSE [session EXCEPT !.pc = "start_user_data_stream",
                                    !.balance_applied = TRUE,
                                    !.positions_applied = TRUE],
             cache |-> r.cache]

\* connect() up to the end of _init_account_balance; snapshots are the
\* position lists the REST reply may carry.
InitAccountBalance(snapshots) ==
    /\ session.pc = "new"
    /\ \E rest_ok \in BOOLEAN, positions \in snapshots :
         LET r == init_account_balance(account_type, rest_ok, positions,
                                       cache_positions)
         IN /\ session' = r.session
            /\ cache_positions' = r.cache
    /\ UNCHANGED <<keep_alive, handler, delivered, last_effect_frame,
                   last_mention, published, emsVars, connVars, enumVars, appVars>>

\* The keep-alive task as create_task starts it.
keep_alive_started(max_retry) ==
    [pc |-> IF 0 < max_retry THEN "running" ELSE "stopped", retry_count |-> 0,
     max_retry |-> max_retry, outcomes |-> <<>>, exception |-> None,
     requests |-> <<>>]

\* The replies of the listen-key request: it raises, or it returns a listen
\* key, which may be empty.
ListenKeyReplies == {"RestError", "", "listen_key"}

\* The REST request _start_user_data_stream issues for the account type
\* (None: no branch of the if chain is taken).
listen_key_request(t) ==
    CASE is_spot(t) -> "post_api_v3_user_data_stream"
      [] is_margin(t) -> "post_sapi_v1_user_data_stream"
      [] is_linear(t) -> "post_fapi_v1_listen_key"
      [] is_inverse(t) -> "post_dapi_v1_listen_key"
      [] is_portfolio_margin(t) -> "post_papi_v1_listen_key"
      [] OTHER -> None

\* The REST request _keep_alive_listen_key issues for the account type.
keep_alive_request(t) ==
    CASE is_spot(t) -> "put_api_v3_user_data_stream"
      [] is_margin(t) -> "put_sapi_v1_user_data_stream"
      [] is_linear(t) -> "put_fapi_v1_listen_key"
      [] is_inverse(t) -> "put_dapi_v1_listen_key"
      [] is_portfolio_margin(t) -> "put_papi_v1_listen_key"
      [] OTHER -> None

\* The requests after one more call: nothing is added when there is none.
issued(requests, request) ==
    IF request = None THEN requests ELSE Append(requests, request)

\* The session once _start_user_data_stream was called.
stream_started(s, t) ==
    [s EXCEPT !.stream_started = TRUE,
              !.requests = issued(@, listen_key_request(t))]

\* connect() from _start_user_data_stream to create_task: the session and
\* the keep-alive task it leaves. An account type without a listen-key branch
\* reads the unbound res; an empty listen key is the RuntimeError of
\* connect().
start_user_data_stream(t, reply, max_retry) ==
    IF ~has_listen_key_endpoint(t)
    THEN [session |-> session_raises(stream_started(session, t),
                                     "UnboundLocalError"),
          keep_alive |-> keep_alive]
    ELSE IF reply = "RestError"
    THEN [session |-> [session_raises(stream_started(session, t),
                                      "RestError")
                         EXCEPT !.rest_failed = TRUE],
          keep_alive |-> keep_alive]
    ELSE IF reply = ""
    THEN [session |-> session_raises(stream_started(session, t),
                                     "RuntimeError"),
          keep_alive |-> keep_alive]
    ELSE [session |-> [stream_started(session, t) EXCEPT !.pc = "subscribe"],
          keep_alive |-> keep_alive_started(max_retry)]

\* connect(): _start_user_data_stream, then the keep-alive task is created.
StartUserDataStream ==
    /\ session.pc = "start_user_data_stream"
    /\ \E reply \in ListenKeyReplies, max_retry \in MaxRetries :
         LET r == start_user_data_stream(account_type, reply, max_retry)
         IN /\ session' = r.session
            /\ keep_alive' = r.keep_alive
    /\ UNCHANGED <<streamVars, emsVars, connVars, enumVars, appVars>>

\* connect(): await self._ws_client.subscribe_user_data_stream(listen_key).
SubscribeUserDataStream ==
    /\ session.pc = "subscribe"
    /\ session' = [session EXCEPT !.pc = "connected", !.subscribed = TRUE]
    /\ UNCHANGED <<keep_alive, streamVars, emsVars, connVars, enumVars, appVars>>

\* A keep-alive that leaves retry_count as it is after a success.
on_keep_alive_success_no_reset(k) ==
    [k EXCEPT !.outcomes = Append(@, TRUE)]

\* try: await self._keep_alive_listen_key(listen_key); retry_count = 0
on_keep_alive_success(k) ==
    [k EXCEPT !.retry_count = 0, !.outcomes = Append(@, TRUE),
              !.requests = issued(@, keep_alive_request(account_type))]

\* except Exception: retry_count += 1; below max_retry the loop goes on,
\* otherwise it logs and breaks. No exception leaves the coroutine.
on_keep_alive_failure(k) ==
    [k EXCEPT !.retry_count = @ + 1, !.outcomes = Append(@, FALSE),
              !.requests = issued(@, keep_alive_request(account_type)),
              !.pc = IF k.retry_count + 1 < k.max_retry
                     THEN "running" ELSE "stopped"]

\* One turn of the loop whose keep-alive request succeeds.
KeepAliveSuccess ==
    /\ keep_alive.pc = "running"
    /\ keep_alive.retry_count < keep_alive.max_retry
    /\ Len(keep_alive.outcomes) < MaxAttempts
    /\ keep_alive' = on_keep_alive_success(keep_alive)
    /\ UNCHANGED <<session, streamVars, emsVars, connVars, enumVars, appVars>>

\* One turn of the loop whose keep-alive request raises.
KeepAliveFailure ==
    /\ keep_alive.pc = "running"
    /\ keep_alive.retry_count < keep_alive.max_retry
    /\ Len(keep_alive.outcomes) < MaxAttempts
    /\ keep_alive' = on_keep_alive_failure(keep_alive)
    /\ UNCHANGED <<session, streamVars, emsVars, connVars, enumVars, appVars>>

(***************************************************************************)
(* BinancePrivateConnector: the user-data handler                          *)
(***************************************************************************)
\* The frames one run delivers, and the order updates among them.
MaxFrames == 3
MaxFills == 2

\* An order-trade-update: native symbol (s), whether the order type is_market,
\* is_limit or neither, last filled quantity (l), average price (ap),
\* cumulative filled quantity (z), order price (p).
NoFill == [s |-> None, kind |-> None, l |-> 0, ap |-> 0, z |-> 0, p |-> 0]

Fills ==
    [s : {KnownNative}, kind : {"market", "limit", "other"}, l : {1, 2},
     ap : {0, 100, 110}, z : {1, 2}, p : {90}]
      \cup {[s |-> UnknownNative, kind |-> "market", l |-> 1, ap |-> 100,
             z |-> 1, p |-> 90]}

\* A raw frame by what the general decoder makes of it: bytes it cannot
\* decode, a message without an event type, an event type no case handles,
\* an account update with its position list, an order-trade-update.
frame_of(e, P, o) == [e |-> e, P |-> P, o |-> o]

OtherFrames ==
    {frame_of(e, <<>>, NoFill) :
       e \in {"undecodable", "no_event", "listenKeyExpired"}}

AccountFrames == {frame_of("ACCOUNT_UPDATE", P, NoFill) : P \in PositionLists}

OrderFrames == {frame_of("ORDER_TRADE_UPDATE", <<>>, o) : o \in Fills}

\* price = Decimal(ap) or Decimal(p): the order price when ap is zero.
order_price(fill) == IF fill.ap # 0 THEN fill.ap ELSE fill.p

\* A cost that takes the accumulated quantity for the last fill.
order_cost_accumulated(fill) ==
    IF fill.kind = "market" THEN fill.z * fill.ap
    ELSE fill.z * order_price(fill)

\* cost: Decimal(l) * Decimal(ap) for a market order, Decimal(l) * price for
\* a limit order.
order_cost(fill) ==
    IF fill.kind = "market" THEN fill.l * fill.ap
    ELSE fill.l * order_price(fill)

\* cum_cost: Decimal(z) * Decimal(ap), or Decimal(z) * price.
order_cum_cost(fill) ==
    IF fill.kind = "market" THEN fill.z * fill.ap
    ELSE fill.z * order_price(fill)

NoPublishedOrder ==
    [symbol |-> None, type |-> None, last_filled |-> 0, average |-> 0,
     filled |-> 0, price |-> 0, cost |-> 0, cum_cost |-> 0]

\* _parse_order_trade_update: the Order it publishes, or the exception that
\* leaves it: KeyError for a symbol the reverse lookup lacks, and
\* UnboundLocalError for an order type that is neither is_market nor is_limit
\* (cost is then unbound at Order(...)).
parse_order_trade_update(fill) ==
    IF ~market_id_has(fill.s)
    THEN [exception |-> "KeyError", order |-> NoPublishedOrder]
    ELSE IF fill.kind \notin {"market", "limit"}
    THEN [exception |-> "UnboundLocalError", order |-> NoPublishedOrder]
    ELSE [exception |-> None,
          order |-> [symbol |-> market_id(fill.s), type |-> fill.kind,
                     last_filled |-> fill.l, average |-> fill.ap,
                     filled |-> fill.z, price |-> fill.p,
                     cost |-> order_cost(fill),
                     cum_cost |-> order_cum_cost(fill)]]

\* The handler calls that have started and not ended, and how the last one
\* that ended did: "returned", or the exception that left it.
IdleHandler == [calls |-> <<>>, outcome |-> None]

\* A handler the transport may enter again before it has returned.
handler_never_busy(h) == FALSE

\* _ws_msg_handler is a plain function called on the event loop: until it
\* returns, the transport cannot call it for the next frame.
handler_busy(h) == h.calls # <<>>

\* The entry of a position list that a symbol's cached position comes from:
\* the last one that names the symbol; NoRaw when none does.
last_entry_for(P, native) ==
    LET m == {i \in DOMAIN P : P[i].s = native}
    IN IF m = {} THEN NoRaw
       ELSE P[CHOOSE i \in m : \A j \in m : j <= i]

\* _ws_msg_handler(raw), from the call to its return, its exception, or the
\* start of the position loop of _parse_account_update. A DecodeError is
\* logged and the handler returns; nothing else is caught.
WsMsgHandler(frame) ==
    /\ session.subscribed
    /\ ~handler_busy(handler)
    /\ delivered < MaxFrames
    /\ frame.e = "ORDER_TRADE_UPDATE" => Len(published) < MaxFills
    /\ delivered' = delivered + 1
    /\ LET r == parse_order_trade_update(frame.o)
           publishes == frame.e = "ORDER_TRADE_UPDATE" /\ r.exception = None
           applies == frame.e = "ACCOUNT_UPDATE"
       IN /\ published' = IF publishes THEN Append(published, r.order)
                          ELSE published
          /\ last_effect_frame' = IF publishes \/ applies THEN delivered + 1
                                  ELSE last_effect_frame
          /\ handler' =
               IF applies /\ frame.P # <<>>
               THEN [calls |-> Append(handler.calls,
                                      [frame_no |-> delivered + 1,
                                       todo |-> frame.P,
                                       before |-> cache_positions]),
                     outcome |-> None]
               ELSE IF frame.e = "ORDER_TRADE_UPDATE" /\ r.exception # None
               THEN [handler EXCEPT !.outcome = r.exception]
               ELSE [handler EXCEPT !.outcome = "returned"]
          /\ last_mention' =
               IF applies /\ last_entry_for(frame.P, KnownNative) # NoRaw
               THEN [last_mention EXCEPT ![market_id(KnownNative)] =
                       last_entry_for(frame.P, KnownNative)]
               ELSE last_mention
    /\ UNCHANGED <<cache_positions, sessionVars, emsVars, connVars, enumVars, appVars>>

\* One turn of the position loop of _parse_account_update: the lookup of the
\* symbol, Position(...), self._cache._apply_position(position). A KeyError
\* at the lookup leaves the handler.
ApplyNextPosition ==
    /\ \E i \in DOMAIN handler.calls :
         LET c == handler.calls[i]
             raw == Head(c.todo)
             known == market_id_has(raw.s)
             rest == [j \in 1..(Len(handler.calls) - 1) |->
                        IF j < i THEN handler.calls[j]
                        ELSE handler.calls[j + 1]]
         IN /\ cache_positions' =
                 IF known
                 THEN apply_position(cache_positions, build_position(raw))
                 ELSE cache_positions
            /\ last_effect_frame' = IF known THEN c.frame_no
                                    ELSE last_effect_frame
            /\ handler' =
                 IF ~known THEN [calls |-> rest, outcome |-> "KeyError"]
                 ELSE IF Tail(c.todo) = <<>>
                 THEN [calls |-> rest, outcome |-> "returned"]
                 ELSE [handler EXCEPT !.calls[i].todo = Tail(c.todo)]
    /\ UNCHANGED <<delivered, last_mention, published, sessionVars, emsVars,
                   connVars, enumVars, appVars>>

(***************************************************************************)
(* OkxEnumParser and BinanceEnumParser: the lookup tables                  *)
(***************************************************************************)
\* The canonical enums, by the members the sources name. KlineInterval has
\* intervals OKX lacks (Binance's 2h and 8h).
OrderStatus ==
    {"PENDING", "CANCELING", "ACCEPTED", "PARTIALLY_FILLED", "FILLED",
     "CANCELED", "EXPIRED", "FAILED"}
PositionSide == {"FLAT", "LONG", "SHORT"}
OrderSide == {"BUY", "SELL"}
TimeInForce == {"GTC", "IOC", "FOK"}
KlineInterval ==
    {"SECOND_1", "MINUTE_1", "MINUTE_3", "MINUTE_5", "MINUTE_15", "MINUTE_30",
     "HOUR_1", "HOUR_2", "HOUR_4", "HOUR_6", "HOUR_8", "HOUR_12", "DAY_1",
     "DAY_3", "WEEK_1", "MONTH_1"}

\* {v: k for k, v in table.items()}: every value of the table, each with a
\* key that maps to it (the tables here map no two keys to one value).
reversed_map(table) ==
    [v \in {table[k] : k \in DOMAIN table} |->
       CHOOSE k \in DOMAIN table : table[k] = v]

\* The tables of OkxEnumParser, native value (the enum member's value) to
\* canonical member.
okx_kline_interval_map ==
    ("candle1s" :> "SECOND_1") @@ ("candle1m" :> "MINUTE_1")
      @@ ("candle3m" :> "MINUTE_3") @@ ("candle5m" :> "MINUTE_5")
      @@ ("candle15m" :> "MINUTE_15") @@ ("candle30m" :> "MINUTE_30")
      @@ ("candle1h" :> "HOUR_1") @@ ("candle4h" :> "HOUR_4")
      @@ ("candle6h" :> "HOUR_6") @@ ("candle12h" :> "HOUR_12")
      @@ ("candle1D" :> "DAY_1") @@ ("candle3D" :> "DAY_3")
      @@ ("candle1W" :> "WEEK_1") @@ ("candle1M" :> "MONTH_1")

okx_order_status_map ==
    ("live" :> "ACCEPTED") @@ ("partially_filled" :> "PARTIALLY_FILLED")
      @@ ("filled" :> "FILLED") @@ ("canceled" :> "CANCELED")

okx_position_side_map ==
    ("net" :> "FLAT") @@ ("long" :> "LONG") @@ ("short" :> "SHORT")
      @@ ("" :> None)

okx_order_side_map == ("buy" :> "BUY") @@ ("sell" :> "SELL")

order_status_to_okx_map == reversed_map(okx_order_status_map)

\* A reverse table with two of its entries exchanged.
position_side_to_okx_map_swapped ==
    ("FLAT" :> "net") @@ ("LONG" :> "short") @@ ("SHORT" :> "long")

\* _position_side_to_okx_map is written out, not derived.
position_side_to_okx_map ==
    ("FLAT" :> "net") @@ ("LONG" :> "long") @@ ("SHORT" :> "short")

order_side_to_okx_map == reversed_map(okx_order_side_map)

kline_interval_to_okx_map == reversed_map(okx_kline_interval_map)

\* The tables of BinanceEnumParser.
binance_order_status_map ==
    ("NEW" :> "ACCEPTED") @@ ("PARTIALLY_FILLED" :> "PARTIALLY_FILLED")
      @@ ("FILLED" :> "FILLED") @@ ("CANCELED" :> "CANCELED")
      @@ ("EXPIRED" :> "EXPIRED")

binance_position_side_map ==
    ("LONG" :> "LONG") @@ ("SHORT" :> "SHORT") @@ ("BOTH" :> "FLAT")

binance_order_side_map == ("BUY" :> "BUY") @@ ("SELL" :> "SELL")

binance_order_time_in_force_map ==
    ("IOC" :> "IOC") @@ ("GTC" :> "GTC") @@ ("FOK" :> "FOK")

binance_order_type_map == ("LIMIT" :> "LIMIT") @@ ("MARKET" :> "MARKET")

order_status_to_binance_map == reversed_map(binance_order_status_map)
position_side_to_binance_map == reversed_map(binance_position_side_map)
order_side_to_binance_map == reversed_map(binance_order_side_map)
time_in_force_to_binance_map == reversed_map(binance_order_time_in_force_map)
order_type_to_binance_map == reversed_map(binance_order_type_map)

\* The translation pairs: parse_X reads `parse`, to_okx_X / to_binance_X
\* reads `to_native`; `canonical` is the enum of the argument of the latter.
translation_pair(parser, table, parse, to_native, canonical) ==
    [parser |-> parser, table |-> table, parse |-> parse,
     to_native |-> to_native, canonical |-> canonical]

TranslationPairs ==
    { translation_pair("okx", "kline_interval", okx_kline_interval_map,
                       kline_interval_to_okx_map, KlineInterval),
      translation_pair("okx", "order_status", okx_order_status_map,
                       order_status_to_okx_map, OrderStatus),
      translation_pair("okx", "position_side", okx_position_side_map,
                       position_side_to_okx_map, PositionSide),
      translation_pair("okx", "order_side", okx_order_side_map,
                       order_side_to_okx_map, OrderSide),
      translation_pair("binance", "order_status", binance_order_status_map,
                       order_status_to_binance_map, OrderStatus),
      translation_pair("binance", "position_side", binance_position_side_map,
                       position_side_to_binance_map, PositionSide),
      translation_pair("binance", "order_side", binance_order_side_map,
                       order_side_to_binance_map, OrderSide),
      translation_pair("binance", "time_in_force",
                       binance_order_time_in_force_map,
                       time_in_force_to_binance_map, TimeInForce),
      translation_pair("binance", "order_type", binance_order_type_map,
                       order_type_to_binance_map, OrderType) }

pair_of(parser, table) ==
    CHOOSE p \in TranslationPairs : p.parser = parser /\ p.table = table

IdleEnumCall ==
    [pc |-> "idle", parser |-> None, table |-> None, value |-> None,
     native |-> None, result |-> None]

\* to_okx_X(value) / to_binance_X(value): the table lookup; a canonical
\* value the table lacks raises (KeyError, KlineSupportedError).
ToNative ==
    /\ enum_call.pc = "called"
    /\ LET p == pair_of(enum_call.parser, enum_call.table)
       IN enum_call' =
            IF enum_call.value \in DOMAIN p.to_native
            THEN [enum_call EXCEPT !.pc = "native",
                                   !.native = p.to_native[enum_call.value]]
            ELSE [enum_call EXCEPT !.pc = "raised"]
    /\ UNCHANGED <<emsVars, connVars, sessionVars, streamVars, appVars>>

\* parse_X(native): the table lookup on the way back.
Parse ==
    /\ enum_call.pc = "native"
    /\ LET p == pair_of(enum_call.parser, enum_call.table)
       IN enum_call' = [enum_call EXCEPT !.pc = "parsed",
                                         !.result = p.parse[enum_call.native]]
    /\ UNCHANGED <<emsVars, connVars, sessionVars, streamVars, appVars>>

(***************************************************************************)
(* OkxEnumParser: order type and time in force                             *)
(***************************************************************************)
OkxOrderType ==
    {"MARKET", "LIMIT", "POST_ONLY", "FOK", "IOC", "OPTIMAL_LIMIT_IOC", "MMP",
     "MMP_AND_POST_ONLY"}

\* to_okx_order_type(order_type, time_in_force); None: RuntimeError.
to_okx_order_type(order_type, time_in_force) ==
    IF order_type = "MARKET" THEN "MARKET"
    ELSE CASE time_in_force = "GTC" -> "LIMIT"
           [] time_in_force = "FOK" -> "FOK"
           [] time_in_force = "IOC" -> "IOC"
           [] OTHER -> None

\* parse_order_type(ordType); None: NotImplementedError.
okx_parse_order_type(ordType) ==
    CASE ordType = "MARKET" -> "MARKET"
      [] ordType = "LIMIT" -> "LIMIT"
      [] ordType = "IOC" -> "LIMIT"
      [] ordType = "FOK" -> "LIMIT"
      [] ordType = "POST_ONLY" -> "LIMIT"
      [] OTHER -> None

\* parse_time_in_force(ordType); None: NotImplementedError.
okx_parse_time_in_force(ordType) ==
    CASE ordType = "MARKET" -> "GTC"
      [] ordType = "LIMIT" -> "GTC"
      [] ordType = "POST_ONLY" -> "GTC"
      [] ordType = "FOK" -> "FOK"
      [] ordType = "IOC" -> "IOC"
      [] OTHER -> None

IdleOkxCall ==
    [pc |-> "idle", calls |-> 0, order_type |-> None, time_in_force |-> None,
     native |-> None, parsed_order_type |-> None,
     parsed_time_in_force |-> None]

\* An order is translated for OKX: order_type and time_in_force are the
\* canonical values of the order (None: no time in force given).
ToOkxOrderType ==
    /\ enum_call.calls < MaxOrders
    /\ enum_call.pc \in
         {"idle", "raised"}
           \cup IF /\ enum_call.parsed_order_type # None
                    /\ enum_call.parsed_time_in_force # None
                THEN {"native"} ELSE {}
    /\ \E order_type \in OrderType, time_in_force \in TimeInForce \cup {None} :
         LET native == to_okx_order_type(order_type, time_in_force)
         IN enum_call' =
              [pc |-> IF native = None THEN "raised" ELSE "native",
               calls |-> enum_call.calls + 1,
               order_type |-> order_type,
               time_in_force |-> time_in_force,
               native |-> native,
               parsed_order_type |-> None,
               parsed_time_in_force |-> None]
    /\ UNCHANGED <<emsVars, connVars, sessionVars, streamVars, appVars>>

\* The OKX order type comes back (in an order update) and is parsed.
OkxParseOrderType ==
    /\ enum_call.pc = "native"
    /\ enum_call.parsed_order_type = None
    /\ enum_call' = [enum_call EXCEPT
                       !.parsed_order_type =
                          okx_parse_order_type(enum_call.native)]
    /\ UNCHANGED <<emsVars, connVars, sessionVars, streamVars, appVars>>

OkxParseTimeInForce ==
    /\ enum_call.pc = "native"
    /\ enum_call.parsed_time_in_force = None
    /\ enum_call' = [enum_call EXCEPT
                       !.parsed_time_in_force =
                          okx_parse_time_in_force(enum_call.native)]
    /\ UNCHANGED <<emsVars, connVars, sessionVars, streamVars, appVars>>

(***************************************************************************)
(* The two OKX position-side parsers                                       *)
(***************************************************************************)
\* OkxPositionSide, by the members' values.
OkxPositionSide == {"long", "short", "net", ""}

\* OkxPositionSide.parse_to_position_side: NET, LONG and SHORT have a
\* branch; any other member falls through to raise RuntimeError.
okx_parse_to_position_side(side) ==
    IF side = "net" THEN "FLAT"
    ELSE IF side = "long" THEN "LONG"
    ELSE IF side = "short" THEN "SHORT"
    ELSE "RuntimeError"

\* OkxEnumParser.parse_position_side: cls._okx_position_side_map[side]; a
\* member the table lacks is a KeyError.
okx_parse_position_side(side) ==
    IF side \in DOMAIN okx_position_side_map
    THEN okx_position_side_map[side] ELSE "KeyError"

\* No position side parsed yet; sides are the native sides received so far,
\* by_member and by_table what the two parsers made of the last one.
IdleOkxSideCall ==
    [pc |-> "idle", sides |-> <<>>, by_member |-> "pending",
     by_table |-> "pending"]

\* A position message of OKX arrives with its posSide.
OkxPositionSideArrives ==
    /\ enum_call.pc \in {"idle", "parsed"}
    /\ Len(enum_call.sides) < MaxOrders
    /\ \E side \in OkxPositionSide :
         enum_call' = [pc |-> "native", sides |-> Append(enum_call.sides, side),
                       by_member |-> "pending", by_table |-> "pending"]
    /\ UNCHANGED <<emsVars, connVars, sessionVars, streamVars, appVars>>

\* side.parse_to_position_side()
OkxParseToPositionSide ==
    /\ enum_call.pc = "native"
    /\ enum_call.by_member = "pending"
    /\ enum_call' =
         [enum_call EXCEPT
            !.by_member = okx_parse_to_position_side(
                            enum_call.sides[Len(enum_call.sides)]),
            !.pc = IF enum_call.by_table = "pending" THEN "native"
                   ELSE "parsed"]
    /\ UNCHANGED <<emsVars, connVars, sessionVars, streamVars, appVars>>

\* OkxEnumParser.parse_position_side(side)
OkxParsePositionSide ==
    /\ enum_call.pc = "native"
    /\ enum_call.by_table = "pending"
    /\ enum_call' =
         [enum_call EXCEPT
            !.by_table = okx_parse_position_side(
                           enum_call.sides[Len(enum_call.sides)]),
            !.pc = IF enum_call.by_member = "pending" THEN "native"
                   ELSE "parsed"]
    /\ UNCHANGED <<emsVars, connVars, sessionVars, streamVars, appVars>>

(***************************************************************************)
(* BinancePublicConnector: subscriptions and the message handler           *)
(***************************************************************************)
\* BinanceWsEventType; the handler has a case for four of its members.
BinanceWsEventType ==
    {"trade", "aggTrade", "bookTicker", "kline", "markPriceUpdate",
     "depthUpdate"}

\* A push message: whether the bytes decode as BinanceWsMessageGeneral, the
\* event tag e (None: the message has none), whether it has an update id u,
\* and the native symbol s.
PublicFrames ==
    [decodable : BOOLEAN, e : BinanceWsEventType \cup {None}, u : BOOLEAN,
     s : {KnownNative, UnknownNative}]

NoFrame == [decodable |-> FALSE, e |-> None, u |-> FALSE, s |-> None]

\* The symbols a strategy subscribes with: canonical and in the market
\* table, native already, canonical and not in the table.
SubscribedSymbols == Symbols \cup {KnownNative, "NEW/USDT:USDT"}

\* BinanceKlineInterval: the native intervals by their canonical names.
binance_kline_interval ==
    ("SECOND_1" :> "1s") @@ ("MINUTE_1" :> "1m") @@ ("MINUTE_3" :> "3m")
      @@ ("MINUTE_5" :> "5m") @@ ("MINUTE_15" :> "15m")
      @@ ("MINUTE_30" :> "30m") @@ ("HOUR_1" :> "1h") @@ ("HOUR_2" :> "2h")
      @@ ("HOUR_4" :> "4h") @@ ("HOUR_6" :> "6h") @@ ("HOUR_8" :> "8h")
      @@ ("HOUR_12" :> "12h") @@ ("DAY_1" :> "1d") @@ ("DAY_3" :> "3d")
      @@ ("WEEK_1" :> "1w") @@ ("MONTH_1" :> "1M")

\* The intervals a strategy subscribes with; the last is no member of the
\* conversion table (a native string passed in place of the enum member).
SubscribedIntervals == {"MINUTE_1", "HOUR_8", "MONTH_1", "1m"}

NoSubscribe == [op |-> None, symbol |-> None, interval |-> None]

NoPublic ==
    [handled |-> 0, frame |-> NoFrame, outcome |-> "none", published |-> <<>>,
     calls |-> 0, call |-> NoSubscribe, exception |-> None, commands |-> <<>>]

\* The events one parser publishes, by topic, in the order of its publish
\* calls.
parser_topics(parser) ==
    CASE parser = "_parse_trade" -> <<"trade">>
      [] parser = "_parse_futures_book_ticker" -> <<"bookl1">>
      [] parser = "_parse_spot_book_ticker" -> <<"bookl1">>
      [] parser = "_parse_kline" -> <<"kline">>
      [] parser = "_parse_mark_price" ->
           <<"mark_price", "funding_rate", "index_price">>
      [] OTHER -> <<>>

\* The parser _ws_msg_handler calls for a decoded message (None: no case).
ws_msg_parser(msg) ==
    IF msg.e # None
    THEN CASE msg.e = "trade" -> "_parse_trade"
           [] msg.e = "bookTicker" -> "_parse_futures_book_ticker"
           [] msg.e = "kline" -> "_parse_kline"
           [] msg.e = "markPriceUpdate" -> "_parse_mark_price"
           [] OTHER -> None
    ELSE IF msg.u THEN "_parse_spot_book_ticker"
    ELSE None

\* _ws_msg_handler(raw): the events published and how the handler ends. A
\* DecodeError is logged; the KeyError of self._market_id[id] in a parser is
\* not caught and nothing is published.
ws_msg_handler(frame) ==
    IF ~frame.decodable THEN [published |-> <<>>, outcome |-> "logged"]
    ELSE IF ws_msg_parser(frame) = None
    THEN [published |-> <<>>, outcome |-> "returned"]
    ELSE IF ~market_id_has(frame.s)
    THEN [published |-> <<>>, outcome |-> "KeyError"]
    ELSE [published |->
            [i \in DOMAIN parser_topics(ws_msg_parser(frame)) |->
               [topic |-> parser_topics(ws_msg_parser(frame))[i],
                symbol |-> market_id(frame.s)]],
          outcome |-> "returned"]

\* The transport delivers a message to the handler.
PublicFrame ==
    /\ public.handled < MaxFrames
    /\ \E frame \in PublicFrames :
         LET r == ws_msg_handler(frame)
         IN public' = [public EXCEPT !.handled = @ + 1,
                                     !.frame = frame,
                                     !.outcome = r.outcome,
                                     !.published = @ \o r.published]
    /\ UNCHANGED <<emsVars, connVars, sessionVars, streamVars, enumVars,
                   strategyVars, engine, calc,
                   coreVars>>

\* market = self._market.get(symbol, None);
\* symbol = market.id if market else symbol.
subscribe_symbol_unresolved(symbol) == symbol

subscribe_symbol(symbol) ==
    IF symbol \in Symbols THEN KnownNative ELSE symbol

\* BinanceEnumParser.to_binance_kline_interval(interval); None: the
\* interval has no native equivalent, and the conversion raises.
to_binance_kline_interval(interval) ==
    IF interval \in DOMAIN binance_kline_interval
    THEN binance_kline_interval[interval]
    ELSE None

\* subscribe_trade / subscribe_bookl1 / subscribe_kline: the call as the
\* connector leaves it.  channel is the method of the transport.
public_subscribe(op, channel, symbol, interval, native_interval) ==
    [public EXCEPT
       !.calls = @ + 1,
       !.call = [op |-> op, symbol |-> symbol, interval |-> interval],
       !.exception = IF op = "subscribe_kline" /\ native_interval = None
                     THEN "UnsupportedMappingError" ELSE None,
       !.commands = IF op = "subscribe_kline" /\ native_interval = None
                    THEN @
                    ELSE Append(@, [channel |-> channel,
                                    symbol |-> subscribe_symbol(symbol),
                                    interval |-> native_interval])]

SubscribeTrade ==
    /\ public.calls < MaxOrders
    /\ \E symbol \in SubscribedSymbols :
         public' = public_subscribe("subscribe_trade", "subscribe_trade",
                                    symbol, None, None)
    /\ UNCHANGED <<emsVars, connVars, sessionVars, streamVars, enumVars,
                   strategyVars, engine, calc,
                   coreVars>>

SubscribeBookl1 ==
    /\ public.calls < MaxOrders
    /\ \E symbol \in SubscribedSymbols :
         public' = public_subscribe("subscribe_bookl1",
                                    "subscribe_book_ticker", symbol, None,
                                    None)
    /\ UNCHANGED <<emsVars, connVars, sessionVars, streamVars, enumVars,
                   strategyVars, engine, calc,
                   coreVars>>

SubscribeKline ==
    /\ public.calls < MaxOrders
    /\ \E symbol \in SubscribedSymbols, interval \in SubscribedIntervals :
         public' = public_subscribe("subscribe_kline", "subscribe_kline",
                                    symbol, interval,
                                    to_binance_kline_interval(interval))
    /\ UNCHANGED <<emsVars, connVars, sessionVars, streamVars, enumVars,
                   strategyVars, engine, calc,
                   coreVars>>

(***************************************************************************)
(* Strategy: the algo-order API                                            *)
(***************************************************************************)
\* The values of wait and duration a strategy passes (seconds).
AlgoTimes == {30, 60}

\* The uuids of the commands of a run.
AlgoIds == 1..MaxOrders

\* The instruments a strategy trades, the account types it names (None: the
\* account type is left to the execution management system), and the sets of
\* private connectors it runs with.
StrategyKinds == {"spot", "linear"}
StrategyAccountTypes == {None, "MARGIN"}
StrategyConnectors ==
    {{"SPOT"}, {"SPOT", "MARGIN"}, {"SPOT", "USD_M_FUTURE"}}

\* No call of the order API yet.
IdleStrategy ==
    [calls |-> 0, op |-> None, wait |-> 0, duration |-> 0, arg |-> 0,
     uuid |-> 0, target |-> None, exception |-> None, result |-> 0]

\* OrderSubmit(submit_type=..., uuid=...): the command, by the fields the
\* queue's consumer reads.
OrderSubmit(submit_type, uuid) == [submit_type |-> submit_type, uuid |-> uuid]

\* A create_adp_maker that accepts every wait.
adp_maker_wait_rejected_never(wait, duration) == FALSE

\* create_adp_maker: if wait > duration: raise OrderError(...).
adp_maker_wait_rejected(wait, duration) == wait > duration

\* create_twap builds the OrderSubmit without looking at wait and duration.
twap_wait_rejected(wait, duration) == FALSE

\* A cancel that stamps the command with a uuid of its own.
cancel_uuid_fresh(uuid) == next_uuid

\* cancel_twap / cancel_adp_maker: OrderSubmit(..., uuid=uuid).
cancel_uuid(uuid) == uuid

\* self._ems[exchange]._submit_order(order, account_type) as the strategy's
\* last statement but one: the queues it leaves and the record of the call.
\* rejected: the OrderError before the OrderSubmit was built. A target
\* without a queue is the KeyError of _submit_order.
strategy_submit(op, submit_type, arg, uuid, kind, explicit, wait, duration, rejected) ==
    LET target == submit_target(kind, explicit)
        raised == target \notin DOMAIN order_submit_queues
        order == OrderSubmit(submit_type, uuid)
    IN [queues |->
          IF rejected \/ raised THEN order_submit_queues
          ELSE [order_submit_queues EXCEPT
                  ![target] = put_nowait(@, order)],
        call |->
          [calls |-> strategy.calls + 1, op |-> op, wait |-> wait,
           duration |-> duration, arg |-> arg,
           uuid |-> IF rejected THEN 0 ELSE uuid,
           target |-> IF rejected THEN None ELSE target,
           exception |-> IF rejected THEN "OrderError"
                         ELSE IF raised THEN "KeyError" ELSE None,
           result |-> IF rejected \/ raised THEN 0 ELSE uuid]]

\* create_adp_maker(symbol, side, amount, duration, wait, ...): the uuid is
\* a fresh ALGO-<uuid4>.
CreateAdpMaker ==
    /\ built
    /\ strategy.calls < MaxOrders
    /\ \E kind \in StrategyKinds, explicit \in StrategyAccountTypes,
          wait \in AlgoTimes, duration \in AlgoTimes :
         LET r == strategy_submit("create_adp_maker", "ADP_MAKER", 0,
                                  next_uuid, kind, explicit, wait, duration,
                                  adp_maker_wait_rejected(wait, duration))
         IN /\ order_submit_queues' = r.queues
            /\ strategy' = r.call
            /\ next_uuid' = IF r.call.exception = "OrderError" THEN next_uuid
                            ELSE next_uuid + 1
    /\ UNCHANGED <<private_connectors, built, binance_spot_account_type,
                   binance_linear_account_type, binance_inverse_account_type,
                   binance_pm_account_type, dispatched, accepted, last_submit,
                   resolved, algos, connVars, sessionVars, streamVars,
                   enumVars, engine, public, calc,
                   coreVars>>

\* create_twap(symbol, side, amount, duration, wait, ...).
CreateTwap ==
    /\ built
    /\ strategy.calls < MaxOrders
    /\ \E kind \in StrategyKinds, explicit \in StrategyAccountTypes,
          wait \in AlgoTimes, duration \in AlgoTimes :
         LET r == strategy_submit("create_twap", "TWAP", 0, next_uuid,
                                  kind, explicit, wait, duration,
                                  twap_wait_rejected(wait, duration))
         IN /\ order_submit_queues' = r.queues
            /\ strategy' = r.call
            /\ next_uuid' = IF r.call.exception = "OrderError" THEN next_uuid
                            ELSE next_uuid + 1
    /\ UNCHANGED <<private_connectors, built, binance_spot_account_type,
                   binance_linear_account_type, binance_inverse_account_type,
                   binance_pm_account_type, dispatched, accepted, last_submit,
                   resolved, algos, connVars, sessionVars, streamVars,
                   enumVars, engine, public, calc,
                   coreVars>>

\* cancel_adp_maker(symbol, uuid, account_type): the uuid is the caller's.
CancelAdpMaker ==
    /\ built
    /\ strategy.calls < MaxOrders
    /\ \E kind \in StrategyKinds, explicit \in StrategyAccountTypes,
          uuid \in AlgoIds :
         LET r == strategy_submit("cancel_adp_maker", "CANCEL_ADP_MAKER",
                                  uuid, cancel_uuid(uuid), kind, explicit, 0,
                                  0, FALSE)
         IN /\ order_submit_queues' = r.queues
            /\ strategy' = r.call
    /\ UNCHANGED <<private_connectors, built, binance_spot_account_type,
                   binance_linear_account_type, binance_inverse_account_type,
                   binance_pm_account_type, dispatched, accepted, next_uuid,
                   last_submit, resolved, algos, connVars, sessionVars,
                   streamVars, enumVars, engine, public, calc,
                   coreVars>>

\* cancel_twap(symbol, uuid, account_type).
CancelTwap ==
    /\ built
    /\ strategy.calls < MaxOrders
    /\ \E kind \in StrategyKinds, explicit \in StrategyAccountTypes,
          uuid \in AlgoIds :
         LET r == strategy_submit("cancel_twap", "CANCEL_TWAP", uuid,
                                  cancel_uuid(uuid), kind, explicit, 0, 0,
                                  FALSE)
         IN /\ order_submit_queues' = r.queues
            /\ strategy' = r.call
    /\ UNCHANGED <<private_connectors, built, binance_spot_account_type,
                   binance_linear_account_type, binance_inverse_account_type,
                   binance_pm_account_type, dispatched, accepted, next_uuid,
                   last_submit, resolved, algos, connVars, sessionVars,
                   streamVars, enumVars, engine, public, calc,
                   coreVars>>

(***************************************************************************)
(* The algo orders of the execution management system                      *)
(***************************************************************************)
\* An algo order: whether it runs, and its outstanding child order.
NoAlgo == [state |-> "none", child |-> "none"]

\* The consumer of a queue takes the next command: a TWAP / ADP_MAKER
\* command starts the algo of its uuid, a CANCEL_TWAP / CANCEL_ADP_MAKER
\* command stops the running algo of its uuid and cancels its outstanding
\* child order.
dispatch_algo(cmd) ==
    IF cmd.submit_type \in {"TWAP", "ADP_MAKER"}
    THEN [algos EXCEPT ![cmd.uuid] = [state |-> "running", child |-> "none"]]
    ELSE IF algos[cmd.uuid].state = "running"
    THEN [algos EXCEPT
            ![cmd.uuid] = [state |-> "cancelled",
                           child |-> IF @.child = "open" THEN "cancelled"
                                     ELSE @.child]]
    ELSE algos

DispatchAlgo ==
    /\ \E a \in DOMAIN order_submit_queues :
         /\ order_submit_queues[a] # <<>>
         /\ algos' = dispatch_algo(Head(order_submit_queues[a]))
         /\ dispatched' = [dispatched EXCEPT
                             ![a] = Append(@, Head(order_submit_queues[a]))]
         /\ order_submit_queues' = [order_submit_queues EXCEPT ![a] = Tail(@)]
    /\ UNCHANGED <<private_connectors, built, binance_spot_account_type,
                   binance_linear_account_type, binance_inverse_account_type,
                   binance_pm_account_type, accepted, next_uuid, last_submit,
                   resolved, strategy, connVars, sessionVars, streamVars,
                   enumVars, engine, public, calc,
                   coreVars>>

\* A running algo without an outstanding child order places its next slice.
PlaceChild ==
    /\ \E u \in AlgoIds :
         /\ algos[u].state = "running"
         /\ algos[u].child # "open"
         /\ algos' = [algos EXCEPT ![u].child = "open"]
    /\ UNCHANGED <<emsVars, strategy, connVars, sessionVars, streamVars,
                   enumVars, engine, public, calc,
                   coreVars>>

\* The child order fills.
ChildFilled ==
    /\ \E u \in AlgoIds :
         /\ algos[u].child = "open"
         /\ algos' = [algos EXCEPT ![u].child = "filled"]
    /\ UNCHANGED <<emsVars, strategy, connVars, sessionVars, streamVars,
                   enumVars, engine, public, calc,
                   coreVars>>

\* The child order is not filled within wait: its remainder is cancelled,
\* and the algo will re-price it.
ChildExpired ==
    /\ \E u \in AlgoIds :
         /\ algos[u].child = "open"
         /\ algos' = [algos EXCEPT ![u].child = "cancelled"]
    /\ UNCHANGED <<emsVars, strategy, connVars, sessionVars, streamVars,
                   enumVars, engine, public, calc,
                   coreVars>>

(***************************************************************************)
(* Engine: _build, start and dispose                                       *)
(***************************************************************************)
Exchanges == <<"BINANCE", "OKX">>

\* The account types of OKX, and the exchange of an account type.
OkxAccountTypes == {"LIVE", "AWS", "DEMO"}
exchange_of(t) == IF t \in OkxAccountTypes THEN "OKX" ELSE "BINANCE"

\* account_type.is_testnet (OKX: DEMO only).
is_testnet(t) ==
    t \in {"DEMO", "SPOT_TESTNET", "USD_M_FUTURE_TESTNET",
           "COIN_M_FUTURE_TESTNET"}

\* The sequences of distinct members of S, up to three long.
DistinctSeqs(S) ==
    {<<>>} \cup {<<a>> : a \in S}
      \cup {s \in S \X S : s[1] # s[2]}
      \cup {s \in S \X S \X S : s[1] # s[2] /\ s[1] # s[3] /\ s[2] # s[3]}

\* The configurations: per exchange its basic config (absent, or with its
\* testnet flag), the account types of its public connector configs, its
\* private connector configs (no entry, an empty list, or one connector) and
\* whether the strategy subscribed to the book of one of its spot symbols;
\* and the ZeroMQ signal config (unset, or set with a strategy that has or
\* lacks on_custom_signal).
EngineConfigs ==
    [basic : [{"BINANCE", "OKX"} -> {"absent", "live", "testnet"}],
     public : [BINANCE : {<<>>, <<"SPOT">>, <<"MARGIN">>},
               OKX : DistinctSeqs(OkxAccountTypes)],
     private : [{"BINANCE", "OKX"} -> {"absent", "empty", "set"}],
     subscriptions : SUBSET {"BINANCE", "OKX"},
     zero_mq_signal : {"unset", "handled", "unhandled"}]

\* self._public_connectors after _build_public_connectors: its keys in
\* insertion order, BINANCE's before OKX's (the order of public_conn_config),
\* up to the first exchange without an ExchangeManager, where
\* self._exchanges[exchange_id] is a KeyError.
build_public_connectors(cfg) ==
    IF cfg.public["BINANCE"] # <<>> /\ cfg.basic["BINANCE"] = "absent"
    THEN [keys |-> <<>>, exception |-> "KeyError"]
    ELSE IF cfg.public["OKX"] # <<>> /\ cfg.basic["OKX"] = "absent"
    THEN [keys |-> cfg.public["BINANCE"], exception |-> "KeyError"]
    ELSE [keys |-> cfg.public["BINANCE"] \o cfg.public["OKX"],
          exception |-> None]

\* if okx_public_conn_count > 1: raise EngineBuildError(...)
okx_count_exceeded(okx_public_conn_count) == okx_public_conn_count > 1

\* _public_connector_check from the i-th key on, okx_public_conn_count OKX
\* connectors seen so far: the exception it raises, or None.
RECURSIVE public_connector_check(_, _, _, _)
public_connector_check(keys, basic, i, okx_public_conn_count) ==
    IF i > Len(keys) THEN None
    ELSE LET t == keys[i]
             ex == exchange_of(t)
         IN IF ex = "BINANCE" /\ t \in {"MARGIN", "ISOLATED_MARGIN",
                                        "PORTFOLIO_MARGIN"}
            THEN "EngineBuildError"
            ELSE IF ex = "OKX" /\ okx_count_exceeded(okx_public_conn_count)
            THEN "EngineBuildError"
            ELSE IF basic[ex] = "absent" THEN "EngineBuildError"
            ELSE IF (basic[ex] = "testnet") # is_testnet(t)
            THEN "EngineBuildError"
            ELSE public_connector_check(
                   keys, basic, i + 1,
                   IF ex = "OKX" THEN okx_public_conn_count + 1
                   ELSE okx_public_conn_count)

\* _build_private_connectors from the i-th exchange of private_conn_config
\* on: the exchanges whose private connector was built, and the exception.
RECURSIVE build_private_connectors(_, _, _)
build_private_connectors(cfg, i, done) ==
    IF i > Len(Exchanges) THEN [keys |-> done, exception |-> None]
    ELSE LET ex == Exchanges[i]
         IN IF cfg.private[ex] = "absent"
            THEN build_private_connectors(cfg, i + 1, done)
            ELSE IF cfg.private[ex] = "empty"
            THEN [keys |-> done, exception |-> "EngineBuildError"]
            ELSE IF cfg.basic[ex] = "absent"
            THEN [keys |-> done, exception |-> "KeyError"]
            ELSE build_private_connectors(cfg, i + 1, Append(done, ex))

\* _build: exchanges, public connectors and their check, private
\* connectors, the execution and order management systems, which raise
\* nothing, then the custom signal receiver. The connectors it leaves and
\* the exception that ended it.
build(cfg) ==
    LET pub == build_public_connectors(cfg)
        chk == public_connector_check(pub.keys, cfg.basic, 1, 0)
        priv == build_private_connectors(cfg, 1, <<>>)
    IN IF pub.exception # None
       THEN [public |-> pub.keys, private |-> <<>>,
             exception |-> pub.exception]
       ELSE IF chk # None
       THEN [public |-> pub.keys, private |-> <<>>, exception |-> chk]
       ELSE IF priv.exception # None
       THEN [public |-> pub.keys, private |-> priv.keys,
             exception |-> priv.exception]
       ELSE [public |-> pub.keys, private |-> priv.keys,
             exception |-> IF cfg.zero_mq_signal = "unhandled"
                           THEN "EngineBuildError" ELSE None]

\* Engine(config): nothing built, nothing started.
NewEngine(cfg) ==
    [config |-> cfg, pc |-> "new", exception |-> None,
     public_connectors |-> <<>>, private_connectors |-> <<>>,
     started |-> <<>>, connected |-> <<>>, subscribed |-> <<>>, tasks |-> {},
     scheduler_started |-> FALSE, scheduler_shutdown |-> FALSE,
     disconnected |-> <<>>, tasks_cancelled |-> FALSE]

\* start(): self._build().
EngineBuild ==
    /\ engine.pc = "new"
    /\ LET r == build(engine.config)
       IN engine' = [engine EXCEPT
                       !.pc = IF r.exception = None THEN "built"
                              ELSE "raised",
                       !.exception = r.exception,
                       !.public_connectors = r.public,
                       !.private_connectors = r.private]
    /\ UNCHANGED <<emsVars, connVars, sessionVars, streamVars, enumVars,
                   strategyVars, public, calc,
                   coreVars>>

\* The exchanges of self._exchanges in the order _build_exchanges made
\* them, from the i-th exchange on: self._oms and self._ems have these keys.
RECURSIVE built_exchanges(_, _)
built_exchanges(cfg, i) ==
    IF i > Len(Exchanges) THEN <<>>
    ELSE IF cfg.basic[Exchanges[i]] = "absent"
    THEN built_exchanges(cfg, i + 1)
    ELSE <<Exchanges[i]>> \o built_exchanges(cfg, i + 1)

\* The awaits of _start before _start_connectors, in program order:
\* self._cache.start(), then oms.start() for every order management system
\* (_start_oms), then ems.start() for every execution management system
\* (_start_ems).
start_order(cfg) ==
    LET exs == built_exchanges(cfg, 1)
    IN <<<<"cache", None>>>>
         \o [i \in DOMAIN exs |-> <<"oms", exs[i]>>]
         \o [i \in DOMAIN exs |-> <<"ems", exs[i]>>]

\* A _start that connects without waiting for the cache and the systems.
systems_never_awaited(e) == TRUE

\* _start has come to await self._start_connectors().
systems_started(e) == Len(e.started) = Len(start_order(e.config))

\* _start, up to _start_connectors: the next of its awaits returns.
StartNextSystem ==
    /\ engine.pc = "built"
    /\ ~systems_started(engine)
    /\ engine' = [engine EXCEPT
                    !.started =
                       Append(@, start_order(engine.config)[Len(@) + 1])]
    /\ UNCHANGED <<emsVars, connVars, sessionVars, streamVars, enumVars,
                   strategyVars, public, calc,
                   coreVars>>

\* _start_connectors, first loop: await connector.connect() for the next
\* private connector; connect() leaves the connector's keep-alive task with
\* the task manager.
ConnectPrivate ==
    /\ engine.pc = "built"
    /\ systems_started(engine)
    /\ Len(engine.connected) < Len(engine.private_connectors)
    /\ LET ex == engine.private_connectors[Len(engine.connected) + 1]
       IN engine' = [engine EXCEPT !.connected = Append(@, ex),
                                   !.tasks = @ \cup {ex}]
    /\ UNCHANGED <<emsVars, connVars, sessionVars, streamVars, enumVars,
                   strategyVars, public, calc,
                   coreVars>>

\* Engine._instrument_id_to_account_type for a spot instrument of exchange
\* ex: the account type, or the exception.
engine_instrument_id_to_account_type(cfg, ex) ==
    IF ex = "OKX"
    THEN (IF cfg.public["OKX"] = <<>> THEN "EngineBuildError"
          ELSE cfg.public["OKX"][1])
    ELSE IF cfg.basic[ex] = "absent" THEN "EngineBuildError"
    ELSE IF cfg.basic[ex] = "testnet" THEN "SPOT_TESTNET"
    ELSE "SPOT"

\* One subscription of _start_connectors: the account type of the symbol,
\* the public connector of that account type, its subscribe_bookl1.
subscribe_next(e, ex) ==
    LET t == engine_instrument_id_to_account_type(e.config, ex)
    IN IF t = "EngineBuildError"
       THEN [e EXCEPT !.pc = "raised", !.exception = "EngineBuildError"]
       ELSE IF \A i \in DOMAIN e.public_connectors :
                 e.public_connectors[i] # t
       THEN [e EXCEPT !.pc = "raised", !.exception = "SubscriptionError"]
       ELSE [e EXCEPT !.subscribed = Append(@, ex)]

\* _start_connectors, second loop: the next subscription of the strategy.
SubscribeNext ==
    /\ engine.pc = "built"
    /\ systems_started(engine)
    /\ Len(engine.connected) = Len(engine.private_connectors)
    /\ \E ex \in engine.config.subscriptions :
         /\ \A i \in DOMAIN engine.subscribed : engine.subscribed[i] # ex
         /\ engine' = subscribe_next(engine, ex)
    /\ UNCHANGED <<emsVars, connVars, sessionVars, streamVars, enumVars,
                   strategyVars, public, calc,
                   coreVars>>

\* _start after _start_connectors: the scheduler starts, and start() waits
\* in self._task_manager.wait().
StartScheduler ==
    /\ engine.pc = "built"
    /\ systems_started(engine)
    /\ Len(engine.connected) = Len(engine.private_connectors)
    /\ Len(engine.subscribed) = Cardinality(engine.config.subscriptions)
    /\ engine' = [engine EXCEPT !.pc = "running",
                                !.scheduler_started = TRUE]
    /\ UNCHANGED <<emsVars, connVars, sessionVars, streamVars, enumVars,
                   strategyVars, public, calc,
                   coreVars>>

\* dispose() after start() has returned or raised: _dispose up to its first
\* await; the scheduler is shut down if it was started.
DisposeBegin ==
    /\ engine.pc \in {"raised", "running"}
    /\ engine' = [engine EXCEPT !.pc = "disposing",
                                !.scheduler_shutdown = @ \/
                                                       engine.scheduler_started]
    /\ UNCHANGED <<emsVars, connVars, sessionVars, streamVars, enumVars,
                   strategyVars, public, calc,
                   coreVars>>

\* _dispose: await connector.disconnect() for the next connector, the
\* public connectors first.
Disconnect ==
    /\ engine.pc = "disposing"
    /\ LET all == engine.public_connectors \o engine.private_connectors
       IN /\ Len(engine.disconnected) < Len(all)
          /\ engine' = [engine EXCEPT
                          !.disconnected =
                             Append(@, all[Len(engine.disconnected) + 1])]
    /\ UNCHANGED <<emsVars, connVars, sessionVars, streamVars, enumVars,
                   strategyVars, public, calc,
                   coreVars>>

\* A dispose that cancels the tasks without waiting for the connectors.
CancelTasksEarly ==
    /\ engine.pc = "disposing"
    /\ engine' = [engine EXCEPT !.pc = "disposed", !.tasks = {},
                                !.tasks_cancelled = TRUE]
    /\ UNCHANGED <<emsVars, connVars, sessionVars, streamVars, enumVars,
                   strategyVars, public, calc,
                   coreVars>>

\* _dispose: await self._task_manager.cancel() cancels every owned task.
CancelTasks ==
    /\ engine.pc = "disposing"
    /\ Len(engine.disconnected) =
         Len(engine.public_connectors) + Len(engine.private_connectors)
    /\ engine' = [engine EXCEPT !.pc = "disposed", !.tasks = {},
                                !.tasks_cancelled = TRUE]
    /\ UNCHANGED <<emsVars, connVars, sessionVars, streamVars, enumVars,
                   strategyVars, public, calc,
                   coreVars>>

\* The execution management system as constructed (__init__).
InitEmsFields ==
    /\ built = FALSE
    /\ binance_spot_account_type = None
    /\ binance_linear_account_type = None
    /\ binance_inverse_account_type = None
    /\ binance_pm_account_type = None
    /\ order_submit_queues = <<>>
    /\ dispatched = <<>>
    /\ accepted = <<>>
    /\ next_uuid = 1
    /\ last_submit = [uuid |-> 0, instrument |-> None, account_type |-> None,
                      raised |-> FALSE]
    /\ resolved = [instrument |-> None, result |-> None]

\* A private connector at rest, for the specifications that are not about it.
InitConnAtRest ==
    /\ account_type = "SPOT"
    /\ limiter = FALSE
    /\ tokens = 0
    /\ call = IdleCall

\* The session, the handler and the cache before connect().
InitSessionAtRest ==
    /\ session = NewSession
    /\ keep_alive = NoKeepAlive
    /\ cache_positions = [sym \in Symbols |-> NoPosition]
    /\ handler = IdleHandler
    /\ delivered = 0
    /\ last_effect_frame = 0
    /\ last_mention = [sym \in Symbols |-> NoRaw]
    /\ published = <<>>

InitEnumAtRest == enum_call = IdleEnumCall

\* ---------------------------------------------------------------------
\* Minimum order amount of the Binance execution management system.
\* Costs and prices are whole quote units, the instrument's minimum amount
\* is given in thousandths, and a computed amount is the exact fraction
\* num / den; a rounded amount is a whole number of precision steps
\* (10^-precision).
\* ---------------------------------------------------------------------
CostMins == {1, 5, 10, 100}
AmountMins == {1, 5, 2500, 5500, 6000}
Mids == {1, 2, 3, 7}
Precisions == 0..3
RoundingModes == {"round", "ceil", "floor"}

Pow10(p) == <<1, 10, 100, 1000>>[p + 1]

NoCalc == [pc |-> "idle"]

\* max(a, b) of two fractions with positive denominators.
fraction_max(a, b) ==
    IF a.num * b.den >= b.num * a.den THEN a ELSE b

\* The amount x in steps of 10^-precision, rounded in the given mode.
amount_to_precision(x, precision, mode) ==
    LET scaled == x.num * Pow10(precision)
    IN  CASE mode = "ceil"  -> (scaled + x.den - 1) \div x.den
          [] mode = "floor" -> scaled \div x.den
          [] OTHER          -> (2 * scaled + x.den) \div (2 * x.den)

\* The computation with the result rounded to the nearest step.
get_min_order_amount_nearest(cost_min_, amount_min_, mid, precision) ==
    amount_to_precision(
        fraction_max([num |-> cost_min_ * 11, den |-> 10 * mid],
                     [num |-> amount_min_, den |-> 1000]),
        precision, "round")

get_min_order_amount(cost_min_, amount_min_, mid, precision) ==
    LET cost_min == [num |-> cost_min_ * 11, den |-> 10]
        amount_min == [num |-> amount_min_, den |-> 1000]
        min_order_amount ==
            fraction_max([num |-> cost_min.num, den |-> cost_min.den * mid],
                         amount_min)
    IN  amount_to_precision(min_order_amount, precision, "ceil")

\* One call of _get_min_order_amount; the cache has a book for the symbol
\* or has none (bookl1 gives None, and book.mid raises).
GetMinOrderAmount ==
    /\ calc.pc = "idle"
    /\ \E cost_min \in CostMins, amount_min \in AmountMins,
          book \in BOOLEAN, mid \in Mids, precision \in Precisions :
          calc' = [pc |-> IF book THEN "returned" ELSE "raised",
                   cost_min |-> cost_min,
                   amount_min |-> amount_min,
                   mid |-> IF book THEN mid ELSE 0,
                   precision |-> precision,
                   exception |-> IF book THEN None ELSE "AttributeError",
                   result |-> IF book
                              THEN get_min_order_amount(cost_min, amount_min,
                                                        mid, precision)
                              ELSE 0]
    /\ UNCHANGED <<emsVars, connVars, sessionVars, streamVars, enumVars,
                   strategyVars, engine, public,
                   coreVars>>

\* The next computation.
ResetCalc ==
    /\ calc.pc # "idle"
    /\ calc' = NoCalc
    /\ UNCHANGED <<emsVars, connVars, sessionVars, streamVars, enumVars,
                   strategyVars, engine, public,
                   coreVars>>

(***************************************************************************)
(* Strategy._init_core and the message bus                                 *)
(***************************************************************************)
\* The bus by the calls made on it: subscribe(topic, handler) and
\* register(endpoint, handler), in the order they were made; dispatched are
\* the order updates the order management system handed to a callback.
NoMsgbus ==
    [initialized |-> FALSE, calls |-> 0, subscriptions |-> <<>>,
     endpoints |-> <<>>, updates |-> 0, dispatched |-> <<>>]

\* _init_core(...): nothing when self._initialized; else the three
\* subscriptions, the nine registrations, self._initialized = True.
init_core(bus) ==
    IF bus.initialized THEN [bus EXCEPT !.calls = @ + 1]
    ELSE [bus EXCEPT
            !.calls = @ + 1,
            !.subscriptions =
               @ \o <<[topic |-> "trade", handler |-> "on_trade"],
                      [topic |-> "bookl1", handler |-> "on_bookl1"],
                      [topic |-> "kline", handler |-> "on_kline"]>>,
            !.endpoints =
               @ \o <<[endpoint |-> "pending",
                       handler |-> "on_pending_order"],
                      [endpoint |-> "accepted",
                       handler |-> "on_accepted_order"],
                      [endpoint |-> "partially_filled",
                       handler |-> "on_partially_filled_order"],
                      [endpoint |-> "filled",
                       handler |-> "on_filled_order"],
                      [endpoint |-> "canceling",
                       handler |-> "on_canceling_order"],
                      [endpoint |-> "canceled",
                       handler |-> "on_canceled_order"],
                      [endpoint |-> "failed",
                       handler |-> "on_failed_order"],
                      [endpoint |-> "cancel_failed",
                       handler |-> "on_cancel_failed_order"],
                      [endpoint |-> "balance", handler |-> "on_balance"]>>,
            !.initialized = TRUE]

\* The engine (or anyone) calls strategy._init_core(...).
InitCore ==
    /\ msgbus.calls < MaxOrders
    /\ msgbus' = init_core(msgbus)
    /\ UNCHANGED <<emsVars, connVars, sessionVars, streamVars, enumVars,
                   strategyVars, engine, public, calc, orderbook,
                   position_dict>>

\* The statuses of the orders a Binance connector publishes or returns: the
\* values of the status table, and PENDING / CANCELING / FAILED of the
\* results of create_order and cancel_order.
PublishedStatuses ==
    {binance_order_status_map[n] : n \in DOMAIN binance_order_status_map}
      \cup {"PENDING", "CANCELING", "FAILED"}

\* The endpoint named for a status.
status_endpoint(status) ==
    CASE status = "PENDING" -> "pending"
      [] status = "ACCEPTED" -> "accepted"
      [] status = "PARTIALLY_FILLED" -> "partially_filled"
      [] status = "FILLED" -> "filled"
      [] status = "CANCELING" -> "canceling"
      [] status = "CANCELED" -> "canceled"
      [] status = "EXPIRED" -> "expired"
      [] OTHER -> "failed"

\* The handlers registered under an endpoint.
endpoint_handlers(bus, endpoint) ==
    {i \in DOMAIN bus.endpoints : bus.endpoints[i].endpoint = endpoint}

\* The order management system takes an order update and sends it to the
\* endpoint of its status (None: no handler is registered there).
OrderUpdateDispatch ==
    /\ msgbus.initialized
    /\ msgbus.updates < MaxFrames
    /\ \E status \in PublishedStatuses :
         LET hs == endpoint_handlers(msgbus, status_endpoint(status))
         IN msgbus' =
              [msgbus EXCEPT
                 !.updates = @ + 1,
                 !.dispatched =
                    Append(@, [status |-> status,
                               handler |->
                                 IF hs = {} THEN None
                                 ELSE msgbus.endpoints[
                                        CHOOSE i \in hs : TRUE].handler])]
    /\ UNCHANGED <<emsVars, connVars, sessionVars, streamVars, enumVars,
                   strategyVars, engine, public, calc, orderbook,
                   position_dict>>

(***************************************************************************)
(* Position and PositionDict                                               *)
(***************************************************************************)
\* The symbols of the orders. Amounts are counted in units of 1e-8, prices
\* in whole units, so a cost is in units of 1e-8 as well.
PositionSymbols == {"BTCUSDT", "ETHUSDT"}
OrderAmounts == {-2, -1, 1, 2}
OrderPrices == {1, 3}

\* Decimal('1e-8'), in units of 1e-8.
PositionEpsilon == 1

\* The decimal places the model keeps of a quotient of two Decimals.
AvgPriceDigits == 2

abs(x) == IF x < 0 THEN -x ELSE x

\* n / d for Decimals, d # 0: the quotient rounded half-even at the last
\* place kept, in units of that place.
decimal_div(n, d) ==
    LET scaled == abs(n) * Pow10(AvgPriceDigits)
        q == scaled \div abs(d)
        r == scaled % abs(d)
        up == 2 * r > abs(d) \/ (2 * r = abs(d) /\ q % 2 = 1)
        magnitude == IF up THEN q + 1 ELSE q
    IN IF (n < 0) = (d < 0) THEN magnitude ELSE -magnitude

\* Position(symbol=symbol)
NewPosition(symbol) ==
    [symbol |-> symbol, amount |-> 0, last_price |-> 0, avg_price |-> 0,
     total_cost |-> 0]

\* Position.update(order_amount, price)
position_update(position, order_amount, price) ==
    LET total_cost == position.total_cost + order_amount * price
        amount == position.amount + order_amount
    IN [position EXCEPT
          !.total_cost = total_cost,
          !.amount = amount,
          !.avg_price = IF amount # 0 THEN decimal_div(total_cost, amount)
                        ELSE 0,
          !.last_price = price]

\* PositionDict.__getitem__: the stored position (to_dict and from_dict
\* write and read each Decimal by its str, which loses nothing), or a new
\* one for a symbol the hash lacks.
position_getitem(store, symbol) ==
    IF symbol \in DOMAIN store THEN store[symbol] ELSE NewPosition(symbol)

\* PositionDict.__delitem__: hdel, which ignores a field that is absent.
position_delitem(store, symbol) ==
    [s \in DOMAIN store \ {symbol} |-> store[s]]

\* PositionDict.__setitem__
position_setitem(store, symbol, position) ==
    [s \in DOMAIN store \cup {symbol} |->
       IF s = symbol THEN position ELSE store[s]]

\* An update that stores the position whatever its amount.
position_dict_update_never_deletes(store, symbol, order_amount, price) ==
    position_setitem(
       store, symbol,
       position_update(position_getitem(store, symbol), order_amount,
                       price))

\* PositionDict.update(symbol, order_amount, price)
position_dict_update(store, symbol, order_amount, price) ==
    LET position == position_update(position_getitem(store, symbol),
                                    order_amount, price)
    IN IF abs(position.amount) <= PositionEpsilon
       THEN position_delitem(store, symbol)
       ELSE position_setitem(store, symbol, position)

\* The store (the redis hash, symbol -> position) before any update, with
\* the orders of each symbol since the hash last lacked it.
NoPositions ==
    [store |-> <<>>, since_absent |-> [s \in PositionSymbols |-> <<>>]]

\* self.context.position.update(symbol, order_amount, price)
PositionDictUpdate ==
    /\ \A s \in PositionSymbols :
         Len(position_dict.since_absent[s]) < MaxOrders
    /\ \E symbol \in PositionSymbols, order_amount \in OrderAmounts,
          price \in OrderPrices :
         position_dict' =
           [store |-> position_dict_update(position_dict.store, symbol,
                                           order_amount, price),
            since_absent |->
              [position_dict.since_absent EXCEPT
                 ![symbol] =
                    IF symbol \in DOMAIN position_dict.store
                    THEN Append(@, <<order_amount, price>>)
                    ELSE <<<<order_amount, price>>>>]]
    /\ UNCHANGED <<emsVars, connVars, sessionVars, streamVars, enumVars,
                   strategyVars, engine, public, calc, msgbus, orderbook>>

(***************************************************************************)
(* BybitOrderBook                                                          *)
(***************************************************************************)
\* Prices and sizes as the floats of the messages; a snapshot lists levels
\* with a positive size, a delta may list size 0.
BookPrices == {1, 2}
SnapshotSizes == {1}
DeltaSizes == {0, 2}

\* The lists of [price, size] a message carries for one side: at most one
\* entry per price, in the order of the prices.
level_lists(sizes) ==
    {<<>>}
      \cup {<<<<p, s>>>> : p \in BookPrices, s \in sizes}
      \cup {<<<<l[1], l[2]>>, <<l[3], l[4]>>>> :
              l \in {x \in BookPrices \X sizes \X BookPrices \X sizes :
                       x[1] < x[3]}}

\* BybitWsOrderbookDepthMsg, by type and data.b / data.a.
OrderbookDepthMsgs ==
    [type : {"snapshot"}, b : level_lists(SnapshotSizes),
     a : level_lists(SnapshotSizes)]
      \cup [type : {"delta"}, b : level_lists(DeltaSizes),
            a : level_lists(DeltaSizes)]

\* A side of the book (a dict price -> size) after side[price] = size.
set_level(side, price, size) ==
    [p \in DOMAIN side \cup {price} |-> IF p = price THEN size ELSE side[p]]

\* A side after side.pop(price), price being a key.
pop_level(side, price) == [p \in DOMAIN side \ {price} |-> side[p]]

\* dict.clear().
EmptySide == [p \in {} |-> 0]

\* for price, size in data.b: self.bids[float(price)] = float(size)
RECURSIVE set_levels(_, _)
set_levels(side, list) ==
    IF list = <<>> THEN side
    ELSE set_levels(set_level(side, Head(list)[1], Head(list)[2]), Tail(list))

\* _handle_snapshot: a side is cleared when the snapshot lists levels for it.
handle_snapshot(book, data) ==
    [bids |-> set_levels(IF data.b # <<>> THEN EmptySide ELSE book.bids,
                         data.b),
     asks |-> set_levels(IF data.a # <<>> THEN EmptySide ELSE book.asks,
                         data.a)]

\* One loop of _handle_delta: the side it leaves and the exception that
\* ended it (dict.pop(key) without a default raises KeyError for a key the
\* dict lacks).
RECURSIVE delta_levels(_, _)
delta_levels(side, list) ==
    IF list = <<>> THEN [side |-> side, exception |-> None]
    ELSE LET price == Head(list)[1]
             size == Head(list)[2]
         IN IF size = 0
            THEN IF price \in DOMAIN side
                 THEN delta_levels(pop_level(side, price), Tail(list))
                 ELSE [side |-> side, exception |-> "KeyError"]
            ELSE delta_levels(set_level(side, price, size), Tail(list))

\* _handle_delta: the bids, then the asks.
handle_delta(book, data) ==
    LET b == delta_levels(book.bids, data.b)
        a == delta_levels(book.asks, data.a)
    IN IF b.exception # None
       THEN [bids |-> b.side, asks |-> book.asks, exception |-> b.exception]
       ELSE [bids |-> b.side, asks |-> a.side, exception |-> a.exception]

\* sorted(side.items(), reverse=descending)[:levels]
RECURSIVE sorted_items(_, _, _)
sorted_items(side, descending, levels) ==
    IF DOMAIN side = {} \/ levels = 0 THEN <<>>
    ELSE LET first == CHOOSE p \in DOMAIN side :
                        \A q \in DOMAIN side :
                          IF descending THEN q <= p ELSE p <= q
         IN <<<<first, side[first]>>>>
              \o sorted_items(pop_level(side, first), descending, levels - 1)

\* _get_orderbook(levels).
get_orderbook(book, levels) ==
    [bids |-> sorted_items(book.bids, TRUE, levels),
     asks |-> sorted_items(book.asks, FALSE, levels)]

NoOrderBook ==
    [bids |-> EmptySide, asks |-> EmptySide,
     msg |-> [type |-> None, b |-> <<>>, a |-> <<>>], levels |-> 0,
     exception |-> None, top |-> [bids |-> <<>>, asks |-> <<>>]]

\* parse_orderbook_depth(msg, levels): the book, and what the call returns
\* or raises.
parse_orderbook_depth(ob, msg, levels) ==
    LET book == [bids |-> ob.bids, asks |-> ob.asks]
        r == IF msg.type = "snapshot"
             THEN handle_snapshot(book, msg) @@ [exception |-> None]
             ELSE handle_delta(book, msg)
    IN [bids |-> r.bids, asks |-> r.asks,
        msg |-> msg, levels |-> levels, exception |-> r.exception,
        top |-> IF r.exception = None THEN get_orderbook(r, levels)
                ELSE [bids |-> <<>>, asks |-> <<>>]]

\* The stream delivers an order-book message.
ParseOrderbookDepth ==
    /\ \E msg \in OrderbookDepthMsgs, levels \in {1, 2} :
         orderbook' = parse_orderbook_depth(orderbook, msg, levels)
    /\ UNCHANGED <<emsVars, connVars, sessionVars, streamVars, enumVars,
                   strategyVars, engine, public, calc, msgbus, position_dict>>

\* The message bus, the order book and the position store before any call.
InitCoreAtRest ==
    /\ msgbus = NoMsgbus
    /\ orderbook = NoOrderBook
    /\ position_dict = NoPositions

\* The strategy, the engine, the public connector and the minimum-amount
\* computation before any call.
InitAppAtRest ==
    /\ strategy = IdleStrategy
    /\ algos = [u \in AlgoIds |-> NoAlgo]
    /\ engine = None
    /\ public = NoPublic
    /\ calc = NoCalc
    /\ InitCoreAtRest

InitEms ==
    /\ private_connectors \in
         {S \in SUBSET AccountType : Cardinality(S) <= MaxConnectors}
    /\ InitEmsFields
    /\ InitConnAtRest
    /\ InitSessionAtRest
    /\ InitAppAtRest
    /\ InitEnumAtRest

NextEms == Build \/ SubmitOrder \/ Dispatch

\* The execution management system with its queues.
Spec == InitEms /\ [][NextEms]_vars

InitResolve ==
    /\ private_connectors \in SUBSET AccountType
    /\ InitEmsFields
    /\ InitConnAtRest
    /\ InitSessionAtRest
    /\ InitAppAtRest
    /\ InitEnumAtRest

NextResolve == Build \/ Resolve

\* Account-type resolution, for every set of private connectors.
SpecResolve == InitResolve /\ [][NextResolve]_vars

InitConn ==
    /\ account_type \in BinanceAccountType
    /\ limiter \in BOOLEAN
    /\ tokens = IF limiter THEN MaxTokens ELSE 0
    /\ call = IdleCall
    /\ private_connectors = {account_type}
    /\ InitEmsFields
    /\ InitSessionAtRest
    /\ InitAppAtRest
    /\ InitEnumAtRest

NextConn == Invoke \/ Acquire \/ Refill \/ Body \/ RestSuccess \/ RestFailure

\* The order operations of one private connector.
SpecConn == InitConn /\ [][NextConn]_vars

\* The same under the scheduling of the event loop: a coroutine that can run
\* does run, and the limiter's capacity frees with time.
SpecConnLive ==
    InitConn /\ [][NextConn]_vars
      /\ WF_vars(Acquire) /\ WF_vars(Refill) /\ WF_vars(Body)

\* A private connector of account type t, its limiter unset, before connect().
InitSessionOf(t) ==
    /\ account_type = t
    /\ limiter = FALSE
    /\ tokens = 0
    /\ call = IdleCall
    /\ private_connectors = {t}
    /\ InitEmsFields
    /\ InitSessionAtRest
    /\ InitAppAtRest
    /\ InitEnumAtRest

InitSession == \E t \in BinanceAccountType : InitSessionOf(t)

NextSession ==
    \/ InitAccountBalance(PositionLists)
    \/ StartUserDataStream
    \/ SubscribeUserDataStream
    \/ KeepAliveSuccess
    \/ KeepAliveFailure

\* connect() and the keep-alive task, for every account type.
SpecSession == InitSession /\ [][NextSession]_vars

\* The account types whose user-data stream carries ACCOUNT_UPDATE and
\* ORDER_TRADE_UPDATE events.
FuturesAccountTypes == {"USD_M_FUTURE", "COIN_M_FUTURE"}

InitStream == \E t \in FuturesAccountTypes : InitSessionOf(t)

NextAccountStream ==
    \/ InitAccountBalance(PositionLists)
    \/ StartUserDataStream
    \/ SubscribeUserDataStream
    \/ \E frame \in AccountFrames \cup OtherFrames : WsMsgHandler(frame)
    \/ ApplyNextPosition

\* A futures connector from connect() on, its stream carrying account updates.
SpecAccountStream == InitStream /\ [][NextAccountStream]_vars

\* The account of this stream holds no position when it connects.
NextOrderStream ==
    \/ InitAccountBalance({<<>>})
    \/ StartUserDataStream
    \/ SubscribeUserDataStream
    \/ \E frame \in OrderFrames \cup OtherFrames : WsMsgHandler(frame)

\* A futures connector from connect() on, its stream carrying order updates.
SpecOrderStream == InitStream /\ [][NextOrderStream]_vars

InitEnum ==
    /\ enum_call \in
         {[IdleEnumCall EXCEPT !.pc = "called", !.parser = p.parser,
                               !.table = p.table, !.value = v] :
            p \in TranslationPairs, v \in KlineInterval \cup OrderStatus
              \cup PositionSide \cup OrderSide \cup TimeInForce
              \cup OrderType}
    /\ enum_call.value \in pair_of(enum_call.parser, enum_call.table).canonical
    /\ private_connectors = {}
    /\ InitEmsFields
    /\ InitConnAtRest
    /\ InitSessionAtRest
    /\ InitAppAtRest

NextEnum == ToNative \/ Parse

\* The translations of the two parsers, for every canonical value.
SpecEnum == InitEnum /\ [][NextEnum]_vars

InitStrategy ==
    /\ private_connectors \in StrategyConnectors
    /\ InitEmsFields
    /\ InitConnAtRest
    /\ InitSessionAtRest
    /\ InitAppAtRest
    /\ InitEnumAtRest

NextStrategy ==
    \/ Build
    \/ CreateAdpMaker
    \/ CreateTwap
    \/ CancelAdpMaker
    \/ CancelTwap

\* The algo-order API of a strategy on a built execution management system.
SpecStrategy == InitStrategy /\ [][NextStrategy]_vars

NextAlgo ==
    \/ NextStrategy
    \/ DispatchAlgo
    \/ PlaceChild
    \/ ChildFilled
    \/ ChildExpired

\* The same with the consumers of the queues and the algo orders they run,
\* for a spot and a margin connector (a linear instrument has no queue).
InitAlgo ==
    /\ InitStrategy
    /\ private_connectors = {"SPOT", "MARGIN"}

SpecAlgo == InitAlgo /\ [][NextAlgo]_vars

InitEngine ==
    /\ engine \in {NewEngine(cfg) : cfg \in EngineConfigs}
    /\ private_connectors = {}
    /\ InitEmsFields
    /\ InitConnAtRest
    /\ InitSessionAtRest
    /\ InitEnumAtRest
    /\ strategy = IdleStrategy
    /\ algos = [u \in AlgoIds |-> NoAlgo]
    /\ public = NoPublic
    /\ calc = NoCalc
    /\ InitCoreAtRest

NextEngine ==
    \/ EngineBuild
    \/ StartNextSystem
    \/ ConnectPrivate
    \/ SubscribeNext
    \/ StartScheduler
    \/ DisposeBegin
    \/ Disconnect
    \/ CancelTasks

\* Engine.start() and Engine.dispose(), for every configuration.
SpecEngine == InitEngine /\ [][NextEngine]_vars

\* The same under the scheduling of the event loop: _dispose, once called,
\* is run to its next await and on.
SpecEngineLive ==
    InitEngine /\ [][NextEngine]_vars
      /\ WF_vars(Disconnect) /\ WF_vars(CancelTasks)

\* The minimum order amount, computed for every instrument and book.
InitCalc ==
    /\ InitStrategy

NextCalc ==
    \/ GetMinOrderAmount
    \/ ResetCalc

SpecCalc == InitCalc /\ [][NextCalc]_vars

\* A public connector and the messages of its stream.
InitPublic ==
    /\ InitStrategy
    /\ private_connectors = {"SPOT"}

NextPublicStream ==
    \/ PublicFrame

SpecPublicStream == InitPublic /\ [][NextPublicStream]_vars

\* A public connector and the subscriptions of a strategy.
NextSubscribe ==
    \/ SubscribeTrade
    \/ SubscribeBookl1
    \/ SubscribeKline

SpecSubscribe == InitPublic /\ [][NextSubscribe]_vars

\* Orders translated for OKX and back, one after another.
InitOkxOrderType ==
    /\ enum_call = IdleOkxCall
    /\ private_connectors = {}
    /\ InitEmsFields
    /\ InitConnAtRest
    /\ InitSessionAtRest
    /\ InitAppAtRest

NextOkxOrderType ==
    \/ ToOkxOrderType
    \/ OkxParseOrderType
    \/ OkxParseTimeInForce

SpecOkxOrderType == InitOkxOrderType /\ [][NextOkxOrderType]_vars

\* Position sides of OKX parsed both ways, one after another.
InitOkxPositionSide ==
    /\ enum_call = IdleOkxSideCall
    /\ private_connectors = {}
    /\ InitEmsFields
    /\ InitConnAtRest
    /\ InitSessionAtRest
    /\ InitAppAtRest

NextOkxPositionSide ==
    \/ OkxPositionSideArrives
    \/ OkxParseToPositionSide
    \/ OkxParsePositionSide

SpecOkxPositionSide == InitOkxPositionSide /\ [][NextOkxPositionSide]_vars

\* A strategy initialised by the engine, and the order updates sent to it.
InitMsgbus ==
    /\ InitStrategy
    /\ private_connectors = {"SPOT"}

NextMsgbus ==
    \/ InitCore
    \/ OrderUpdateDispatch

SpecMsgbus == InitMsgbus /\ [][NextMsgbus]_vars

\* A Bybit order book and the messages of its stream.
NextOrderBook ==
    \/ ParseOrderbookDepth

SpecOrderBook == InitMsgbus /\ [][NextOrderBook]_vars

\* A position store and the orders booked into it.
NextPositionDict ==
    \/ PositionDictUpdate

SpecPositionDict == InitMsgbus /\ [][NextPositionDict]_vars

(***************************************************************************)
(* Properties of the execution management system                           *)
(***************************************************************************)
\* The uuids of the commands _submit_order enqueued for account type a, in
\* the order of the calls.
RECURSIVE accepted_for(_, _)
accepted_for(a, i) ==
    IF i > Len(accepted) THEN <<>>
    ELSE (IF accepted[i].target = a THEN <<accepted[i].uuid>> ELSE <<>>)
         \o accepted_for(a, i + 1)

\* C1: per account type, the commands the consumer has taken, followed by the
\* commands still queued, are exactly the commands _submit_order enqueued for
\* that account type, once each and in the order of submission, whatever was
\* submitted to other account types in between.
PerAccountFifo ==
    /\ \A i \in 1..Len(accepted) :
         accepted[i].target \in DOMAIN order_submit_queues
    /\ \A a \in DOMAIN order_submit_queues :
         dispatched[a] \o order_submit_queues[a] = accepted_for(a, 1)

\* C1 witness: two commands of one account type were taken in submission
\* order, a command of another account type having been submitted between
\* them and taken by its own consumer.
PerAccountFifoWitness ==
    \E a, b \in DOMAIN order_submit_queues :
        /\ a # b
        /\ Len(accepted) = 3
        /\ accepted[1].target = a /\ accepted[2].target = b
        /\ accepted[3].target = a
        /\ dispatched[a] = <<accepted[1].uuid, accepted[3].uuid>>
        /\ dispatched[b] = <<accepted[2].uuid>>

\* C7: a _submit_order call appends the command to the queue of the explicit
\* account type when one is given and of the account type resolved from the
\* instrument otherwise, and leaves every other queue as it was (a target
\* without a queue is a KeyError and no queue changes).
SubmitAppendsToOneQueue ==
    [][next_uuid' # next_uuid =>
         LET explicit == last_submit'.account_type
             kind == last_submit'.instrument
             target == IF explicit # None THEN explicit
                       ELSE IF binance_pm_account_type # None
                            THEN binance_pm_account_type
                       ELSE IF kind = "spot" THEN binance_spot_account_type
                       ELSE IF kind = "linear" THEN binance_linear_account_type
                       ELSE IF kind = "inverse"
                            THEN binance_inverse_account_type
                       ELSE None
         IN /\ DOMAIN order_submit_queues' = DOMAIN order_submit_queues
            /\ last_submit'.raised <=> target \notin DOMAIN order_submit_queues
            /\ \A a \in DOMAIN order_submit_queues :
                 order_submit_queues'[a] =
                   IF a = target
                   THEN Append(order_submit_queues[a], last_submit'.uuid)
                   ELSE order_submit_queues[a]]_vars

\* C7 witness: a command submitted with an explicit account type that is not
\* the one its instrument resolves to sits in the explicit type's queue, and
\* the queue of the resolved type is empty.
SubmitAppendsToOneQueueWitness ==
    /\ last_submit.uuid > 0
    /\ last_submit.account_type # None
    /\ ~last_submit.raised
    /\ instrument_id_to_account_type(last_submit.instrument)
         \in DOMAIN order_submit_queues
    /\ instrument_id_to_account_type(last_submit.instrument)
         # last_submit.account_type
    /\ order_submit_queues[last_submit.account_type] = <<last_submit.uuid>>
    /\ order_submit_queues[
         instrument_id_to_account_type(last_submit.instrument)] = <<>>

\* C8: once built, every instrument resolves by the stated priority:
\* PORTFOLIO_MARGIN when configured; otherwise a spot instrument to the first
\* configured of ISOLATED_MARGIN, MARGIN, SPOT_TESTNET, SPOT, and a linear or
\* inverse instrument to the testnet futures type when configured, else to the
\* live futures type.
ResolutionFollowsPriority ==
    built =>
      LET cfg == private_connectors
          expected(kind) ==
            IF "PORTFOLIO_MARGIN" \in cfg THEN "PORTFOLIO_MARGIN"
            ELSE IF kind = "spot"
                 THEN (IF "ISOLATED_MARGIN" \in cfg THEN "ISOLATED_MARGIN"
                       ELSE IF "MARGIN" \in cfg THEN "MARGIN"
                       ELSE IF "SPOT_TESTNET" \in cfg THEN "SPOT_TESTNET"
                       ELSE IF "SPOT" \in cfg THEN "SPOT"
                       ELSE None)
            ELSE IF kind = "linear"
                 THEN (IF "USD_M_FUTURE_TESTNET" \in cfg
                       THEN "USD_M_FUTURE_TESTNET" ELSE "USD_M_FUTURE")
            ELSE IF kind = "inverse"
                 THEN (IF "COIN_M_FUTURE_TESTNET" \in cfg
                       THEN "COIN_M_FUTURE_TESTNET" ELSE "COIN_M_FUTURE")
            ELSE None
      IN /\ \A kind \in InstrumentKind :
              instrument_id_to_account_type(kind) = expected(kind)
         /\ resolved.instrument # None =>
              resolved.result = expected(resolved.instrument)

\* C8 witness: with MARGIN, SPOT_TESTNET and SPOT configured, and neither
\* PORTFOLIO_MARGIN nor ISOLATED_MARGIN, a spot instrument was resolved to
\* MARGIN.
ResolutionFollowsPriorityWitness ==
    /\ {"MARGIN", "SPOT_TESTNET", "SPOT"} \subseteq private_connectors
    /\ "PORTFOLIO_MARGIN" \notin private_connectors
    /\ "ISOLATED_MARGIN" \notin private_connectors
    /\ resolved = [instrument |-> "spot", result |-> "MARGIN"]

\* C9: with at least one Binance private connector configured, no
\* _submit_order call without an explicit account type finds the resolved
\* account type of a spot, linear or inverse instrument without a queue (the
\* build would have failed before).
ResolvedAccountTypeHasQueue ==
    ~ /\ private_connectors \cap BinanceAccountType # {}
      /\ last_submit.uuid > 0
      /\ last_submit.account_type = None
      /\ last_submit.instrument \in {"spot", "linear", "inverse"}
      /\ last_submit.raised

(***************************************************************************)
(* Properties of the private connector's order operations                  *)
(***************************************************************************)
CreateOps == {"create_order", "create_take_profit_order",
              "create_stop_loss_order"}

\* The account type of the connector does not support the kind of the market.
Unsupported(t, market) ==
    \/ t \in {"SPOT", "SPOT_TESTNET"} /\ ~market.spot
    \/ t \in {"MARGIN", "ISOLATED_MARGIN"} /\ ~market.margin
    \/ t \in {"USD_M_FUTURE", "USD_M_FUTURE_TESTNET"} /\ ~market.linear
    \/ t \in {"COIN_M_FUTURE", "COIN_M_FUTURE_TESTNET"} /\ ~market.inverse
    \/ t = "PORTFOLIO_MARGIN"
         /\ ~(market.margin \/ market.linear \/ market.inverse)

\* C2: create_order, create_take_profit_order and create_stop_loss_order end
\* by returning an Order, whatever the arguments: no exception leaves them.
CreateNeverRaises ==
    call.op \in CreateOps => call.pc # "raised"

\* C3: the Order create_order or create_take_profit_order returns is PENDING
\* exactly when the exchange accepted the REST request and FAILED exactly when
\* it did not, with filled 0 and remaining the requested amount.
StatusTellsAcceptance ==
    (call.pc = "returned"
       /\ call.op \in {"create_order", "create_take_profit_order"}) =>
      /\ call.order.status = "PENDING" <=> call.rest_ok
      /\ call.order.status = "FAILED" <=> ~call.rest_ok
      /\ call.order.filled = 0
      /\ call.order.remaining = call.amount

\* C4: one invocation sends at most one order-mutating REST request, and an
\* invocation whose REST request failed returns a FAILED Order after that one
\* request.
AtMostOneRestRequest ==
    /\ call.rest_calls <= 1
    /\ (call.pc \in {"returned", "raised"} /\ call.rest_calls = 1
          /\ ~call.rest_ok) =>
         (call.pc = "returned" /\ call.order.status = "FAILED")

\* C4 witness: a create_order whose one REST request failed has returned a
\* FAILED Order.
AtMostOneRestRequestWitness ==
    /\ call.op = "create_order"
    /\ call.pc = "returned"
    /\ call.rest_calls = 1
    /\ ~call.rest_ok
    /\ call.order.status = "FAILED"

\* C5: an order operation sends no REST request when the symbol is absent
\* from the market table or the connector's account type does not support
\* the kind of the symbol's market.
NoRestWhenUnsupported ==
    (call.pc # "idle"
       /\ (~call.market.present \/ Unsupported(account_type, call.market))) =>
      (call.rest_calls = 0 /\ call.pc # "rest")

\* C5 witness: a create_order on a connector whose account type does not
\* support the market found for the symbol has ended without a REST request.
NoRestWhenUnsupportedWitness ==
    /\ call.op = "create_order"
    /\ call.pc = "returned"
    /\ call.market.present
    /\ Unsupported(account_type, call.market)
    /\ call.rest_calls = 0
    /\ call.order.status = "FAILED"

\* C6: cancel_order ends by returning an Order, CANCELING when the REST
\* cancel succeeded and FAILED otherwise, for every symbol: no exception
\* leaves it.
CancelReturnsOrder ==
    (call.op = "cancel_order" /\ call.pc \in {"returned", "raised"}) =>
      /\ call.pc = "returned"
      /\ call.order.status = IF call.rest_ok THEN "CANCELING" ELSE "FAILED"

\* C10: with a rate limiter configured, an invocation that has sent its REST
\* request acquired the limiter before, in that invocation.
AcquiredBeforeRest ==
    (limiter /\ (call.rest_calls > 0 \/ call.pc = "rest")) => call.acquired

\* C10 witness: with a limiter configured, a cancel_order waits for the reply
\* to its REST request, the acquisition done.
AcquiredBeforeRestWitness ==
    /\ limiter
    /\ call.op = "cancel_order"
    /\ call.pc = "rest"
    /\ call.rest_calls = 1
    /\ call.acquired

\* The state an order operation reaches from its acquisition on: the body of
\* its coroutine.
BodyResult(c) ==
    IF c.op = "create_order" THEN create_order_body(c)
    ELSE IF c.op = "create_take_profit_order"
         THEN create_take_profit_order_body(c)
    ELSE IF c.op = "create_stop_loss_order"
         THEN create_stop_loss_order_body(c)
    ELSE cancel_order_body(c)

\* C11: a submission that finds the limiter without capacity stays suspended
\* at the acquisition (it neither raises nor returns an Order while there is
\* no capacity), and once capacity frees it proceeds: a submission whose
\* arguments lead to a REST request eventually sends it, the acquisition done.
SuspendedSubmissionProceeds ==
    /\ [][(call.pc = "acquire" /\ tokens = 0) => call' = call]_vars
    /\ (call.pc = "acquire" /\ tokens = 0 /\ call.op \in CreateOps
          /\ BodyResult(call).pc = "rest")
         ~> (call.pc = "rest" /\ call.acquired)

\* C11 witness: a create_order that was suspended at the acquisition has
\* acquired the limiter and sent its REST request.
SuspendedSubmissionProceedsWitness ==
    /\ call.op = "create_order"
    /\ call.suspended
    /\ call.acquired
    /\ call.pc = "rest"

(***************************************************************************)
(* Properties of connect() and the keep-alive task                         *)
(***************************************************************************)
\* The number of failures at the end of a sequence of keep-alive outcomes.
RECURSIVE trailing_failures(_)
trailing_failures(outcomes) ==
    IF outcomes = <<>> THEN 0
    ELSE IF outcomes[Len(outcomes)] THEN 0
    ELSE 1 + trailing_failures(SubSeq(outcomes, 1, Len(outcomes) - 1))

\* C12: the keep-alive loop has stopped exactly when its last max_retry
\* attempts all failed: retry_count is the number of failures in a row (a
\* success resets it), the loop ran on after every attempt that left fewer
\* than max_retry failures in a row, and it stopped right after the attempt
\* that made them max_retry.
KeepAliveStopsAfterMaxRetry ==
    keep_alive.pc \in {"running", "stopped"} =>
      LET o == keep_alive.outcomes
      IN /\ keep_alive.retry_count = trailing_failures(o)
         /\ keep_alive.pc = "stopped"
              <=> trailing_failures(o) = keep_alive.max_retry
         /\ \A i \in 1..(Len(o) - 1) :
              trailing_failures(SubSeq(o, 1, i)) < keep_alive.max_retry

\* C12 witness: with max_retry 3 the loop survived two failures in a row,
\* a success reset the count, and three more failures in a row stopped it.
KeepAliveStopsAfterMaxRetryWitness ==
    /\ keep_alive.pc = "stopped"
    /\ keep_alive.max_retry = DefaultMaxRetry
    /\ keep_alive.outcomes = <<FALSE, FALSE, TRUE, FALSE, FALSE, FALSE>>

\* C13: when the keep-alive loop has stopped, the connector shows it: the
\* task ended with an exception, the session has a degraded status, or an
\* event was published.
KeepAliveStopSurfaced ==
    keep_alive.pc = "stopped" =>
      \/ keep_alive.exception # None
      \/ session.pc = "degraded"
      \/ published # <<>>

\* C14: for every account type, connect() has applied the balance snapshot
\* once it is past _init_account_balance (unless the REST account call itself
\* failed), and the user-data stream is subscribed only after the balance
\* snapshot, and for a futures account the position snapshot, was applied.
ConnectAppliesSnapshotFirst ==
    /\ (session.pc # "new" /\ ~session.rest_failed) => session.balance_applied
    /\ session.subscribed =>
         /\ session.balance_applied
         /\ (is_linear(account_type) \/ is_inverse(account_type))
              => session.positions_applied

(***************************************************************************)
(* Properties of the user-data handler and the position cache              *)
(***************************************************************************)
\* C15: every cached Position has side None exactly when its signed_amount
\* is 0 and never the netted (FLAT) side; and the Position the handler writes
\* for an entry reported with the BOTH side and a non-zero amount is LONG for
\* a positive amount and SHORT for a negative one.
CachedSideFollowsAmount ==
    /\ [](\A sym \in Symbols :
            LET p == cache_positions[sym]
            IN p # NoPosition =>
                 /\ p.side = None <=> p.signed_amount = 0
                 /\ p.side # "FLAT")
    /\ [][(Len(handler.calls) = 1 /\ handler' # handler) =>
            LET raw == Head(handler.calls[1].todo)
            IN (market_id_has(raw.s) /\ raw.ps = "BOTH" /\ raw.pa # 0) =>
                 /\ cache_positions'[market_id(raw.s)].signed_amount = raw.pa
                 /\ cache_positions'[market_id(raw.s)].side =
                      IF raw.pa > 0 THEN "LONG" ELSE "SHORT"]_vars

\* C15 witness: an account update that reported BOTH with a negative amount
\* was handled, and the cached position is SHORT.
CachedSideFollowsAmountWitness ==
    /\ handler.outcome = "returned"
    /\ handler.calls = <<>>
    /\ last_mention[market_id(KnownNative)].ps = "BOTH"
    /\ last_mention[market_id(KnownNative)].pa = -1
    /\ cache_positions[market_id(KnownNative)].side = "SHORT"
    /\ cache_positions[market_id(KnownNative)].signed_amount = -1

\* C16: between two handler calls, the position cached for a symbol that an
\* account update has named is the Position built from the last entry that
\* named it, field for field.
CacheReflectsLastUpdate ==
    handler.calls = <<>> =>
      \A sym \in Symbols :
        last_mention[sym] # NoRaw =>
          cache_positions[sym] = build_position(last_mention[sym])

\* C17: every published Order has cost = last filled quantity x price and
\* cum_cost = filled quantity x price, where price is the average price, or
\* for a limit order the order price when the average price is zero.
CostIsLastFillTimesPrice ==
    \A i \in 1..Len(published) :
      LET o == published[i]
          price == IF o.average = 0 /\ o.type = "limit" THEN o.price
                   ELSE o.average
      IN /\ o.cost = o.last_filled * price
         /\ o.cum_cost = o.filled * price

\* C17 witness: the fills (l=1, ap=100, z=1) and then (l=1, ap=110, z=2) of
\* a market order were published with costs 100 and 110 and cum_costs 100
\* and 220.
CostIsLastFillTimesPriceWitness ==
    /\ Len(published) = 2
    /\ published[1].type = "market" /\ published[2].type = "market"
    /\ published[1].last_filled = 1 /\ published[1].average = 100
    /\ published[1].filled = 1
    /\ published[1].cost = 100 /\ published[1].cum_cost = 100
    /\ published[2].last_filled = 1 /\ published[2].average = 110
    /\ published[2].filled = 2
    /\ published[2].cost = 110 /\ published[2].cum_cost = 220

\* C18: whatever frames were delivered (undecodable bytes, an event type no
\* case handles, an account update naming a symbol the reverse lookup lacks),
\* every handler call that has ended returned normally: no exception left
\* _ws_msg_handler.
HandlerDropsBadFrames ==
    handler.outcome \in {None, "returned"}

\* C19: the writes and publishes of the frames happen in delivery order, and
\* a frame is handed to the handler only when no earlier call is still
\* running: every effect of frame k precedes every effect of frame k + 1.
FramesNeverInterleave ==
    [][/\ last_effect_frame' >= last_effect_frame
       /\ delivered' # delivered => handler.calls = <<>>
       /\ Len(handler'.calls) <= 1
       /\ (cache_positions' # cache_positions \/ published' # published)
            => last_effect_frame' = delivered']_vars

\* C19 witness: two account updates were handled one after the other, and
\* the position of the second is the last write to the cache.
FramesNeverInterleaveWitness ==
    /\ delivered = 2
    /\ last_effect_frame = 2
    /\ handler.calls = <<>>
    /\ handler.outcome = "returned"
    /\ cache_positions[market_id(KnownNative)].signed_amount = 1
    /\ last_mention[market_id(KnownNative)].pa = 1

(***************************************************************************)
(* Properties of the enum parsers                                          *)
(***************************************************************************)
\* C20: for each lookup-table translation pair of OkxEnumParser and
\* BinanceEnumParser, a canonical value that the to-native table translates
\* is parsed back to itself: parse_X(to_native_X(v)) = v.
EnumRoundTrip ==
    enum_call.pc = "parsed" => enum_call.result = enum_call.value

\* C20 witness: PositionSide.LONG went through OKX's written-out reverse
\* table to "long" and was parsed back to LONG.
EnumRoundTripWitness ==
    /\ enum_call.pc = "parsed"
    /\ enum_call.parser = "okx"
    /\ enum_call.table = "position_side"
    /\ enum_call.value = "LONG"
    /\ enum_call.native = "long"
    /\ enum_call.result = "LONG"

(***************************************************************************)
(* Properties of the strategy's algo-order API                             *)
(***************************************************************************)
\* The number of commands in the queues.
RECURSIVE queued_commands(_, _)
queued_commands(queues, S) ==
    IF S = {} THEN 0
    ELSE LET a == CHOOSE x \in S : TRUE
         IN Len(queues[a]) + queued_commands(queues, S \ {a})

\* C21: a create_adp_maker call with wait > duration raises OrderError and
\* leaves every queue as it was; with wait <= duration it builds one
\* ADP_MAKER command with a fresh uuid and hands it to _submit_order: the
\* command is appended to the queue of the target account type, no other
\* queue changes, and the call returns the command's uuid (a target without
\* a queue is the KeyError of _submit_order, and nothing is enqueued).
AdpMakerRejectsLongWait ==
    [][(strategy'.calls # strategy.calls
          /\ strategy'.op = "create_adp_maker") =>
         LET c == strategy'
         IN IF c.wait > c.duration
            THEN /\ c.exception = "OrderError"
                 /\ c.result = 0
                 /\ order_submit_queues' = order_submit_queues
            ELSE /\ c.exception # "OrderError"
                 /\ c.uuid = next_uuid
                 /\ IF c.target \in DOMAIN order_submit_queues
                    THEN /\ c.exception = None
                         /\ c.result = c.uuid
                         /\ order_submit_queues' =
                              [order_submit_queues EXCEPT
                                 ![c.target] =
                                   Append(@, [submit_type |-> "ADP_MAKER",
                                              uuid |-> c.uuid])]
                         /\ queued_commands(order_submit_queues',
                                            DOMAIN order_submit_queues)
                              = 1 + queued_commands(order_submit_queues,
                                                    DOMAIN order_submit_queues)
                    ELSE /\ c.exception = "KeyError"
                         /\ order_submit_queues' = order_submit_queues]_vars

\* C21 witness: create_adp_maker(wait=60, duration=30) raised OrderError,
\* the queues of the two private connectors empty.
AdpMakerRejectsLongWaitWitness ==
    /\ strategy.op = "create_adp_maker"
    /\ strategy.wait = 60 /\ strategy.duration = 30
    /\ strategy.exception = "OrderError"
    /\ private_connectors = {"SPOT", "MARGIN"}
    /\ \A a \in DOMAIN order_submit_queues : order_submit_queues[a] = <<>>

\* C22: a create_twap call with wait > duration raises OrderError and
\* enqueues nothing.
TwapRejectsLongWait ==
    (strategy.op = "create_twap" /\ strategy.wait > strategy.duration) =>
      /\ strategy.exception = "OrderError"
      /\ strategy.result = 0

(***************************************************************************)
(* Properties of the engine                                                *)
(***************************************************************************)
\* C23: _build does not succeed with more than one OKX public connector
\* configured: it ends with an exception.
OneOkxPublicConnector ==
    ~ /\ engine.pc = "built"
      /\ Len(engine.config.public["OKX"]) > 1

\* C24: an EngineBuildError of start() is raised before connect() was called
\* on any private connector.
BuildErrorsBeforeConnect ==
    engine.exception = "EngineBuildError" => engine.connected = <<>>

cancel_submit_type(op) ==
    IF op = "cancel_twap" THEN "CANCEL_TWAP" ELSE "CANCEL_ADP_MAKER"

\* C27: a cancel_twap / cancel_adp_maker call appends exactly one
\* CANCEL_TWAP / CANCEL_ADP_MAKER command with the caller's uuid to the
\* queue of the target account type and changes no other queue (a target
\* without a queue is the KeyError of _submit_order).  When the consumer
\* dispatches such a command for a running algo, the algo is cancelled and
\* has no open child order from that step on: a cancelled algo stays
\* cancelled and never has an open child order again.
CancelStopsAlgo ==
    /\ [](\A u \in AlgoIds :
            algos[u].state = "cancelled" => algos[u].child # "open")
    /\ [][\A u \in AlgoIds :
            algos[u].state = "cancelled" =>
              /\ algos'[u].state = "cancelled"
              /\ algos'[u].child # "open"]_vars
    /\ [][\A a \in DOMAIN order_submit_queues :
            (/\ a \in DOMAIN order_submit_queues'
             /\ order_submit_queues[a] # <<>>
             /\ order_submit_queues'[a] = Tail(order_submit_queues[a])
             /\ Head(order_submit_queues[a]).submit_type
                  \in {"CANCEL_TWAP", "CANCEL_ADP_MAKER"}
             /\ algos[Head(order_submit_queues[a]).uuid].state = "running")
            => LET u == Head(order_submit_queues[a]).uuid
               IN /\ algos'[u].state = "cancelled"
                  /\ algos'[u].child # "open"
                  /\ algos[u].child = "open" => algos'[u].child = "cancelled"
                  /\ \A v \in AlgoIds \ {u} : algos'[v] = algos[v]]_vars
    /\ [][(strategy'.calls # strategy.calls
             /\ strategy'.op \in {"cancel_twap", "cancel_adp_maker"}) =>
            LET c == strategy'
            IN IF c.target \in DOMAIN order_submit_queues
               THEN /\ c.exception = None
                    /\ order_submit_queues' =
                         [order_submit_queues EXCEPT
                            ![c.target] =
                              Append(@, [submit_type |->
                                           cancel_submit_type(c.op),
                                         uuid |-> c.arg])]
                    /\ queued_commands(order_submit_queues',
                                       DOMAIN order_submit_queues)
                         = 1 + queued_commands(order_submit_queues,
                                               DOMAIN order_submit_queues)
               ELSE /\ c.exception = "KeyError"
                    /\ order_submit_queues' = order_submit_queues]_vars

\* C27 witness: the cancel_twap of algo 1 was dispatched while its child
\* order was open: the algo is cancelled and so is the child.
CancelStopsAlgoWitness ==
    /\ strategy.op = "cancel_twap"
    /\ strategy.arg = 1
    /\ strategy.exception = None
    /\ algos[1] = [state |-> "cancelled", child |-> "cancelled"]
    /\ \E a \in DOMAIN dispatched :
         /\ Len(dispatched[a]) = 2
         /\ dispatched[a][1] = [submit_type |-> "TWAP", uuid |-> 1]
         /\ dispatched[a][2] = [submit_type |-> "CANCEL_TWAP", uuid |-> 1]

(***************************************************************************)
(* Properties of the public connector                                      *)
(***************************************************************************)
\* The topics of the events a step of the handler published.
published_topics(before, after) ==
    [i \in 1..(Len(after) - Len(before)) |-> after[Len(before) + i].topic]

\* C28: for each decoded message the handler publishes exactly one event,
\* on trade, bookl1 or kline, when it is a trade, a book ticker or a kline,
\* exactly mark_price, funding_rate, index_price in this order when it is a
\* mark-price update, and nothing for any other event type; a message with
\* no event tag and an update id is published on bookl1.
PublishesPerEvent ==
    [][(public'.handled # public.handled /\ public'.frame.decodable) =>
         LET f == public'.frame
             topics == published_topics(public.published, public'.published)
         IN CASE f.e = "trade" -> topics = <<"trade">>
              [] f.e = "bookTicker" -> topics = <<"bookl1">>
              [] f.e = "kline" -> topics = <<"kline">>
              [] f.e = "markPriceUpdate" ->
                   topics = <<"mark_price", "funding_rate", "index_price">>
              [] f.e = None /\ f.u -> topics = <<"bookl1">>
              [] OTHER -> topics = <<>>]_vars

\* C29: each subscribe_trade / subscribe_bookl1 / subscribe_kline call
\* forwards exactly one subscribe command to the transport, on the channel
\* of the call, with the market's native id when the symbol is in the market
\* table and with the symbol as given when it is not (for a kline, with the
\* native interval); a subscribe_kline whose interval has no native
\* equivalent forwards nothing.
SubscribeForwardsOne ==
    [][public'.calls # public.calls =>
         LET c == public'.call
             before == Len(public.commands)
             sent == [i \in 1..(Len(public'.commands) - before) |->
                        public'.commands[before + i]]
         IN /\ SubSeq(public'.commands, 1, before) = public.commands
            /\ IF c.op = "subscribe_kline"
                    /\ c.interval \notin {"MINUTE_1", "HOUR_8", "MONTH_1"}
               THEN /\ sent = <<>>
                    /\ public'.exception # None
               ELSE /\ Len(sent) = 1
                    /\ public'.exception = None
                    /\ sent[1].symbol = IF c.symbol = "BTC/USDT:USDT"
                                        THEN "BTCUSDT" ELSE c.symbol
                    /\ sent[1].channel =
                         CASE c.op = "subscribe_trade" -> "subscribe_trade"
                           [] c.op = "subscribe_bookl1" ->
                                "subscribe_book_ticker"
                           [] OTHER -> "subscribe_kline"
                    /\ sent[1].interval =
                         CASE c.op # "subscribe_kline" -> None
                           [] c.interval = "MINUTE_1" -> "1m"
                           [] c.interval = "HOUR_8" -> "8h"
                           [] OTHER -> "1M"]_vars

\* C29 witness: a trade subscription with a canonical symbol of the table,
\* a book subscription with a symbol the table lacks, then a kline
\* subscription with an interval that has no native equivalent.
SubscribeForwardsOneWitness ==
    /\ public.calls = 3
    /\ public.commands =
         <<[channel |-> "subscribe_trade", symbol |-> "BTCUSDT",
            interval |-> None],
           [channel |-> "subscribe_book_ticker", symbol |-> "NEW/USDT:USDT",
            interval |-> None]>>
    /\ public.call = [op |-> "subscribe_kline", symbol |-> "BTC/USDT:USDT",
                      interval |-> "1m"]
    /\ public.exception = "UnsupportedMappingError"

(***************************************************************************)
(* Properties of the OKX order type translation                            *)
(***************************************************************************)
\* C30: for every canonical pair (order_type, time_in_force) that
\* to_okx_order_type accepts, parse_order_type and parse_time_in_force of the OKX order type
\* it gives are order_type and time_in_force again.
OkxOrderTypeRoundTrip ==
    (/\ enum_call.pc = "native"
     /\ enum_call.order_type \in OrderType
     /\ enum_call.time_in_force \in TimeInForce
     /\ enum_call.parsed_order_type # None
     /\ enum_call.parsed_time_in_force # None)
    => /\ enum_call.parsed_order_type = enum_call.order_type
       /\ enum_call.parsed_time_in_force = enum_call.time_in_force

\* C31: a to-native translation never gives a native value for a canonical
\* value without a native equivalent: it raises.  For to_okx_order_type:
\* given a canonical order type other than MARKET and LIMIT it raises,
\* whatever the time in force.
OkxOrderTypeNeverDefaults ==
    enum_call.order_type \notin {None, "MARKET", "LIMIT"}
      => /\ enum_call.pc = "raised"
         /\ enum_call.native = None

(***************************************************************************)
(* Properties of the strategy's registrations                              *)
(***************************************************************************)
\* C32: once _init_core has run, every order status a connector publishes
\* has exactly one callback registered under the endpoint named for it, and
\* a further _init_core registers nothing anew.
EveryStatusHasOneCallback ==
    msgbus.initialized =>
      /\ \A status \in PublishedStatuses :
           Cardinality(endpoint_handlers(msgbus, status_endpoint(status))) = 1
      /\ Len(msgbus.endpoints) = 9
      /\ Len(msgbus.subscriptions) = 3

(***************************************************************************)
(* Properties of the listen key                                            *)
(***************************************************************************)
\* C33: for every account type, once _start_user_data_stream was called it
\* has issued exactly one listen-key request, the one of the account type,
\* and, when the request returned, its key is what connect() goes on with;
\* every keep-alive iteration has issued exactly one refresh request of the
\* account type; with an empty listen key connect() raises RuntimeError, no
\* keep-alive task exists and the stream is not subscribed.
OneListenKeyRequest ==
    /\ session.stream_started =>
         /\ Len(session.requests) = 1
         /\ session.requests[1] \in
              {"post_api_v3_user_data_stream", "post_sapi_v1_user_data_stream",
               "post_fapi_v1_listen_key", "post_dapi_v1_listen_key",
               "post_papi_v1_listen_key"}
         /\ session.exception \in {None, "RestError", "RuntimeError"}
    /\ Len(keep_alive.requests) = Len(keep_alive.outcomes)
    /\ \A i \in DOMAIN keep_alive.requests :
         keep_alive.requests[i] =
           CASE account_type \in {"SPOT", "SPOT_TESTNET"} ->
                  "put_api_v3_user_data_stream"
             [] account_type = "MARGIN" -> "put_sapi_v1_user_data_stream"
             [] account_type \in {"USD_M_FUTURE", "USD_M_FUTURE_TESTNET"} ->
                  "put_fapi_v1_listen_key"
             [] account_type \in {"COIN_M_FUTURE", "COIN_M_FUTURE_TESTNET"} ->
                  "put_dapi_v1_listen_key"
             [] OTHER -> "put_papi_v1_listen_key"
    /\ session.exception = "RuntimeError" =>
         /\ keep_alive.pc = "none"
         /\ ~session.subscribed

(***************************************************************************)
(* Properties of the Bybit order book                                      *)
(***************************************************************************)
\* The levels a list names, as a side of the book.
listed_levels(list) ==
    [p \in {list[i][1] : i \in DOMAIN list} |->
       list[CHOOSE i \in DOMAIN list : list[i][1] = p][2]]

\* C34: after a snapshot the bids and the asks are exactly the levels the
\* snapshot lists, also when it lists none for a side.
SnapshotReplacesBook ==
    orderbook.msg.type = "snapshot" =>
      /\ orderbook.bids = listed_levels(orderbook.msg.b)
      /\ orderbook.asks = listed_levels(orderbook.msg.a)

\* C35: a delta never fails; after it no stored level has size 0, the price
\* of every entry with size 0 is absent, every other entry's level has the
\* entry's size, and the top of the book lists at most `levels` bids in
\* descending and asks in ascending order of price.
DeltaNeverFails ==
    orderbook.msg.type = "delta" =>
      /\ orderbook.exception = None
      /\ \A p \in DOMAIN orderbook.bids : orderbook.bids[p] # 0
      /\ \A p \in DOMAIN orderbook.asks : orderbook.asks[p] # 0
      /\ \A i \in DOMAIN orderbook.msg.b :
           IF orderbook.msg.b[i][2] = 0
           THEN orderbook.msg.b[i][1] \notin DOMAIN orderbook.bids
           ELSE /\ orderbook.msg.b[i][1] \in DOMAIN orderbook.bids
                /\ orderbook.bids[orderbook.msg.b[i][1]] = orderbook.msg.b[i][2]
      /\ \A i \in DOMAIN orderbook.msg.a :
           IF orderbook.msg.a[i][2] = 0
           THEN orderbook.msg.a[i][1] \notin DOMAIN orderbook.asks
           ELSE /\ orderbook.msg.a[i][1] \in DOMAIN orderbook.asks
                /\ orderbook.asks[orderbook.msg.a[i][1]] = orderbook.msg.a[i][2]
      /\ Len(orderbook.top.bids) <= orderbook.levels
      /\ Len(orderbook.top.asks) <= orderbook.levels
      /\ \A i \in 1..(Len(orderbook.top.bids) - 1) :
           orderbook.top.bids[i][1] > orderbook.top.bids[i + 1][1]
      /\ \A i \in 1..(Len(orderbook.top.asks) - 1) :
           orderbook.top.asks[i][1] < orderbook.top.asks[i + 1][1]


\* C36: handling one ACCOUNT_UPDATE frame is all-or-nothing for the cache:
\* when the handler call of a frame ends with the KeyError of a position
\* whose native symbol the reverse lookup lacks, the cached positions are
\* exactly those the cache held when the call began.
AccountUpdateAllOrNothing ==
    [][(/\ handler.calls # <<>>
        /\ handler'.calls = <<>>
        /\ handler'.outcome = "KeyError")
         => cache_positions' = handler.calls[1].before]_vars


\* C37: every Order that cancel_order returns, CANCELING or FAILED, carries
\* in its symbol field the canonical symbol cancel_order was called with.
CancelOrderKeepsSymbol ==
    (call.op = "cancel_order" /\ call.pc = "returned")
      => call.order.symbol = "canonical"


\* The rank of a system in the start order: the cache, then the order
\* management systems, then the execution management systems.
system_rank(entry) ==
    IF entry[1] = "cache" THEN 1 ELSE IF entry[1] = "oms" THEN 2 ELSE 3

\* The cache, and the OMS and the EMS of every exchange of basic_config.
systems_of(cfg) ==
    {<<"cache", None>>}
      \cup {<<kind, ex>> : kind \in {"oms", "ems"},
                           ex \in {x \in {"BINANCE", "OKX"} :
                                     cfg.basic[x] # "absent"}}

\* C38: in Engine._start the cache, then every OMS, then every EMS is
\* started before connect() is called on any private connector; every
\* private connector is connected before the first public subscribe
\* command; and a subscription whose account type has no public connector
\* raises SubscriptionError without sending that or any later subscribe
\* command.
StartsSystemsBeforeConnectors ==
    [][/\ \A i, j \in DOMAIN engine'.started :
            i < j => system_rank(engine'.started[i])
                       <= system_rank(engine'.started[j])
       /\ engine'.connected # engine.connected
            => {engine.started[i] : i \in DOMAIN engine.started}
                 = systems_of(engine.config)
       /\ engine'.subscribed # engine.subscribed
            => /\ engine.connected = engine.private_connectors
               /\ engine'.exception = None
       /\ engine'.exception = "SubscriptionError"
            => engine'.subscribed = engine.subscribed]_vars

\* C38 witness: the cache and the systems of both exchanges were started,
\* the private connector was connected, the OKX book was subscribed, and the
\* BINANCE subscription, which has no public connector, raised
\* SubscriptionError.
StartsSystemsBeforeConnectorsWitness ==
    /\ engine.pc = "raised"
    /\ engine.exception = "SubscriptionError"
    /\ Len(engine.started) = 5
    /\ engine.connected # <<>>
    /\ engine.subscribed = <<"OKX">>


\* C39: the two OKX position-side parsers agree: for every OkxPositionSide
\* value, OkxPositionSide.parse_to_position_side and
\* OkxEnumParser.parse_position_side both return the same canonical
\* PositionSide, or both fail.
OkxPositionSideParsersAgree ==
    enum_call.pc = "parsed"
      => LET m == enum_call.by_member
             t == enum_call.by_table
         IN IF m \in PositionSide THEN t = m
            ELSE m = "RuntimeError" /\ t = "KeyError"


\* The sum of the amounts, and of amount x price, of a sequence of orders.
RECURSIVE sum_amounts(_)
sum_amounts(orders) ==
    IF orders = <<>> THEN 0 ELSE Head(orders)[1] + sum_amounts(Tail(orders))

RECURSIVE sum_costs(_)
sum_costs(orders) ==
    IF orders = <<>> THEN 0
    ELSE Head(orders)[1] * Head(orders)[2] + sum_costs(Tail(orders))

\* C40: after any sequence of PositionDict.update calls the store holds an
\* entry for a symbol exactly when the net amount accumulated since the
\* symbol was last absent exceeds 1e-8 in absolute value; the entry's amount
\* is the sum of the order amounts, its total_cost the sum of amount x
\* price, and its avg_price total_cost / amount (to the last place kept).
PositionDictTracksNetAmount ==
    \A s \in PositionSymbols :
      LET orders == position_dict.since_absent[s]
          net == sum_amounts(orders)
          store == position_dict.store
      IN /\ s \in DOMAIN store <=> abs(net) > PositionEpsilon
         /\ s \in DOMAIN store =>
              /\ store[s].amount = net
              /\ store[s].total_cost = sum_costs(orders)
              /\ 2 * abs(store[s].avg_price * net
                           - sum_costs(orders) * Pow10(AvgPriceDigits))
                   <= abs(net)

\* C40 witness: a position was opened, added to, and then sold down to the
\* threshold, which removed it, while the other symbol's entry stayed after
\* an update that left it three units.
PositionDictTracksNetAmountWitness ==
    /\ "BTCUSDT" \notin DOMAIN position_dict.store
    /\ Len(position_dict.since_absent["BTCUSDT"]) = 3
    /\ sum_amounts(position_dict.since_absent["BTCUSDT"]) = 1
    /\ "ETHUSDT" \in DOMAIN position_dict.store
    /\ position_dict.store["ETHUSDT"].amount = 3
    /\ position_dict.store["ETHUSDT"].total_cost = 5
    /\ position_dict.store["ETHUSDT"].avg_price = 167

====
